---- MODULE Spec2Model ----
(***************************************************************************)
(* The painting pipeline of html2pdf-skia (SkiaRenderer): the stacking-    *)
(* context walker, the effect stack and the global-alpha stack, the        *)
(* suspension points of one render call and the native objects the         *)
(* renderer holds.                                                         *)
(***************************************************************************)
EXTENDS Integers, Sequences, FiniteSets, TLC

VARIABLES
    tree,           \* the stacking-context tree handed to render(): node -> [parent, bucket]
    status,         \* "idle" | "running" | "resolved" : the render() promise
    stack,          \* call stack of the walker, innermost call last
    invisible,      \* nodes whose styles.isVisible() answered false
    log,            \* paint calls issued so far, in order: <<node, phase>>
    activeEffects,  \* SkiaRenderer._activeEffects
    alpha,          \* GlobalAlpha.stack
    effSaves,       \* canvas saves issued by applyEffect and not yet restored by popEffect
    effectOwner,    \* <<node, phase>> of the call that requested the active effects
    usedAlpha,      \* globalAlpha.value read by the latest parseColorWithAlpha (0: none yet)
    pending,        \* outstanding suspensions (awaited promises not yet settled)
    live,           \* native objects created and not deleted
    lastAction,     \* name of the latest operation
    requested,      \* argument of the latest applyEffects call
    unwound,        \* effects popped by the latest applyEffects call that render() or
                    \* the renderer's user made (not: a paint call), in pop order
    effectOps,      \* canvas calls issued by that applyEffects call
    popResult,      \* value returned by the latest GlobalAlpha.pop()
    operation,      \* the operation run on its own, with its arguments
    pc,             \* the statement that operation has reached
    local,          \* its local variables
    canvasCalls     \* the backend calls it has issued, in order

vars == <<tree, status, stack, invisible, log, activeEffects, alpha, effSaves,
          effectOwner, usedAlpha, pending, live, lastAction, requested, unwound,
          effectOps, popResult, operation, pc, local, canvasCalls>>

(* The variables of an operation run on its own.                           *)
OperationVars == <<operation, pc, local, canvasCalls>>

-----------------------------------------------------------------------------
(* Bounds of the model                                                     *)

(* An input of render() is a tree together with the effect lists of its    *)
(* nodes: a tree of n nodes comes with effect lists of at most MaxSize - n *)
(* effects each.                                                           *)
MaxSize == 4

MaxNodes == MaxSize - 1

MaxAlphaDepth == 3

(* Alpha values are fixed-point numbers with 256 standing for 1.0.         *)
AlphaOne == 256

OpacityValues == {64, 128}

-----------------------------------------------------------------------------
(* Effects (IElementEffect): opacity, transform, clip                      *)

Effect(type, opacity) == [type |-> type, opacity |-> opacity]

Effects ==
    {Effect("opacity", v) : v \in OpacityValues}
        \cup {Effect("transform", AlphaOne), Effect("clip", AlphaOne)}

isOpacityEffect(effect) == effect.type = "opacity"

isTransformEffect(effect) == effect.type = "transform"

isClipEffect(effect) == effect.type = "clip"

(* The effect lists of at most n effects.                                  *)
EffectListsUpTo(n) == UNION {[1..k -> Effects] : k \in 0..n}

-----------------------------------------------------------------------------
(* GlobalAlpha                                                             *)

GlobalAlpha_new == <<AlphaOne>>

GlobalAlpha_value(s) == IF Len(s) = 0 THEN AlphaOne ELSE s[Len(s)]

GlobalAlpha_push(s, value) == Append(s, value)

GlobalAlpha_pop_Unguarded(s) ==
    [stack |-> SubSeq(s, 1, Len(s) - 1), result |-> s[Len(s)]]

GlobalAlpha_pop(s) ==
    IF Len(s) > 1
    THEN [stack |-> SubSeq(s, 1, Len(s) - 1), result |-> s[Len(s)]]
    ELSE [stack |-> s, result |-> AlphaOne]

(* canvasKit.multiplyByAlpha(color, a): the colour's alpha channel times a *)
multiplyByAlpha(colorAlpha, a) == (colorAlpha * a) \div AlphaOne

(* parseColorWithAlpha: the colour's alpha times globalAlpha.value         *)
parseColorWithAlpha(colorAlpha, s) == multiplyByAlpha(colorAlpha, GlobalAlpha_value(s))

-----------------------------------------------------------------------------
(* The effect stack.  A renderer state r is                                *)
(*   [active, alpha, saves, ops, unwound]                                  *)

RendererState(active, a, saves) ==
    [active |-> active, alpha |-> a, saves |-> saves, ops |-> <<>>, unwound |-> <<>>]

applyEffect(r, effect) ==
    LET saved == [r EXCEPT !.ops = Append(@, "save"), !.saves = @ + 1]
        faded == IF isOpacityEffect(effect)
                 THEN [saved EXCEPT !.alpha = GlobalAlpha_push(@, effect.opacity)]
                 ELSE saved
        moved == IF isTransformEffect(effect)
                 THEN [faded EXCEPT !.ops = @ \o <<"translate", "concat", "translate">>]
                 ELSE faded
        clipped == IF isClipEffect(effect)
                   THEN [moved EXCEPT !.ops = Append(@, "clipPath")]
                   ELSE moved
    IN [clipped EXCEPT !.active = Append(@, effect)]

PopEffect_NoRestore(r) ==
    LET n == Len(r.active)
        effect == r.active[n]
        popped == [r EXCEPT !.active = SubSeq(@, 1, n - 1),
                            !.unwound = Append(@, effect)]
    IN IF isOpacityEffect(effect)
       THEN [popped EXCEPT !.alpha = GlobalAlpha_pop(@).stack]
       ELSE popped

(* _activeEffects.pop() answers undefined on an empty array: the restore is *)
(* issued all the same and the alpha stack is left alone.                  *)
popEffect(r) ==
    LET n == Len(r.active)
        restored == [r EXCEPT !.ops = Append(@, "restore"), !.saves = @ - 1]
    IN IF n = 0 THEN restored
       ELSE LET effect == r.active[n]
                popped == [restored EXCEPT !.active = SubSeq(@, 1, n - 1),
                                           !.unwound = Append(@, effect)]
            IN IF isOpacityEffect(effect)
               THEN [popped EXCEPT !.alpha = GlobalAlpha_pop(@).stack]
               ELSE popped

UnwindEffects_PopsOne(r) == IF Len(r.active) = 0 THEN r ELSE popEffect(r)

RECURSIVE unwindEffects(_)
unwindEffects(r) == IF Len(r.active) = 0 THEN r ELSE unwindEffects(popEffect(r))

RECURSIVE forEachApplyEffect(_, _, _)
forEachApplyEffect(r, effects, i) ==
    IF i > Len(effects) THEN r
    ELSE forEachApplyEffect(applyEffect(r, effects[i]), effects, i + 1)

ApplyEffects_NoUnwind(r, effects) == forEachApplyEffect(r, effects, 1)

applyEffects(r, effects) == forEachApplyEffect(unwindEffects(r), effects, 1)

-----------------------------------------------------------------------------
(* The stacking-context tree                                               *)

(* The seven child buckets of a StackingContext.  A bucket of contexts is  *)
(* walked with renderStack, a bucket of nodes with renderNode.             *)
ContextBuckets ==
    {"negativeZIndex", "nonPositionedFloats", "nonPositionedInlineLevel",
     "zeroOrAutoZIndexOrTransformedOrOpacity", "positiveZIndex"}

NodeBuckets == {"nonInlineLevel", "inlineLevel"}

Buckets == ContextBuckets \cup NodeBuckets

RootNode == [parent |-> 0, bucket |-> "root"]

ContextsOf(t) == {i \in 1..Len(t) : t[i].bucket \in ContextBuckets \cup {"root"}}

(* Every tree of n nodes: node 1 is the root context, every other node is  *)
(* listed in one bucket of an earlier context.                             *)
RECURSIVE TreesOfSize(_)
TreesOfSize(n) ==
    IF n = 1 THEN {<<RootNode>>}
    ELSE UNION {{Append(t, [parent |-> p, bucket |-> b]) :
                    p \in ContextsOf(t), b \in Buckets} : t \in TreesOfSize(n - 1)}

Trees == UNION {TreesOfSize(n) : n \in 1..MaxNodes}

Nodes == 1..Len(tree)

(* What ElementPaint.getEffects(target) may answer for a node of the tree. *)
EffectLists == EffectListsUpTo(MaxSize - Len(tree))

-----------------------------------------------------------------------------
(* The walker: renderStack, renderStackContent, renderNode                 *)

Step(do, bucket, call) == [do |-> do, bucket |-> bucket, call |-> call]

RenderStackContent_ContentBeforeNegative ==
    << Step("background", "", ""),
       Step("content", "", ""),
       Step("loop", "negativeZIndex", "renderStack"),
       Step("loop", "nonInlineLevel", "renderNode"),
       Step("loop", "nonPositionedFloats", "renderStack"),
       Step("loop", "nonPositionedInlineLevel", "renderStack"),
       Step("loop", "inlineLevel", "renderNode"),
       Step("loop", "zeroOrAutoZIndexOrTransformedOrOpacity", "renderStack"),
       Step("loop", "positiveZIndex", "renderStack") >>

(* The statements of renderStackContent, in program order.                 *)
renderStackContent ==
    << Step("background", "", ""),
       Step("loop", "negativeZIndex", "renderStack"),
       Step("content", "", ""),
       Step("loop", "nonInlineLevel", "renderNode"),
       Step("loop", "nonPositionedFloats", "renderStack"),
       Step("loop", "nonPositionedInlineLevel", "renderStack"),
       Step("loop", "inlineLevel", "renderNode"),
       Step("loop", "zeroOrAutoZIndexOrTransformedOrOpacity", "renderStack"),
       Step("loop", "positiveZIndex", "renderStack") >>

(* The statements of renderNode after its visibility test.                 *)
renderNode == << Step("background", "", ""), Step("content", "", "") >>

Frame(fn, node, step, idx) == [fn |-> fn, node |-> node, step |-> step, idx |-> idx]

Top == stack[Len(stack)]

Return(stk) == SubSeq(stk, 1, Len(stk) - 1)

Goto(stk, frame) == Append(Return(stk), frame)

Body(fn) == IF fn = "renderNode" THEN renderNode ELSE renderStackContent

Blocked_NoAwait == FALSE

(* await: the caller does not go on while the promise it awaits is unsettled *)
Blocked == pending # {}

(* The list a context keeps for one bucket, in list order.                 *)
Children(c, b) ==
    SelectSeq([i \in 1..Len(tree) |-> i],
              LAMBDA i : tree[i].parent = c /\ tree[i].bucket = b)

(* Control reaches the next statement that does something: a loop over an  *)
(* exhausted list falls through to the statement after it, the end of a    *)
(* function body returns to the caller's loop.                             *)
RECURSIVE Continue(_)
Continue(stk) ==
    IF stk = <<>> THEN stk
    ELSE LET top == stk[Len(stk)]
         IN IF top.step = 0 THEN stk
            ELSE IF top.step > Len(Body(top.fn)) THEN Continue(Return(stk))
            ELSE LET statement == Body(top.fn)[top.step]
                 IN IF /\ statement.do = "loop"
                       /\ top.idx > Len(Children(top.node, statement.bucket))
                    THEN Continue(Goto(stk, [top EXCEPT !.step = @ + 1, !.idx = 1]))
                    ELSE stk

NextStatement(stk) ==
    Continue(Goto(stk, [stk[Len(stk)] EXCEPT !.step = @ + 1, !.idx = 1]))

RenderStack_IgnoresVisibility(stk, visible) ==
    Goto(stk, Frame("renderStackContent", stk[Len(stk)].node, 1, 1))

(* renderStack: a context whose root is not visible is left at once        *)
renderStack(stk, visible) ==
    IF visible
    THEN Goto(stk, Frame("renderStackContent", stk[Len(stk)].node, 1, 1))
    ELSE Continue(Return(stk))

(* renderNode up to its visibility test                                    *)
renderNodeEnter(stk, visible) ==
    IF visible
    THEN Goto(stk, Frame("renderNode", stk[Len(stk)].node, 1, 1))
    ELSE Continue(Return(stk))

-----------------------------------------------------------------------------
(* Painting operations                                                     *)

Suspension(node, what) == [node |-> node, what |-> what]

EffectVars == <<activeEffects, alpha, effSaves, requested, effectOwner>>

ObserverVars == <<unwound, effectOps, popResult>>

(* this.applyEffects(paint.getEffects(target)) at the head of a paint call *)
UseEffects(node, phase, effects) ==
    LET r == applyEffects(RendererState(activeEffects, alpha, effSaves), effects)
    IN /\ activeEffects' = r.active
       /\ alpha' = r.alpha
       /\ effSaves' = r.saves
       /\ requested' = effects
       /\ effectOwner' = <<node, phase>>

BackgroundKinds == {"none", "color", "url"}

(* renderNodeBackgroundAndBorders up to the first await of a URL layer     *)
renderNodeBackgroundAndBorders(node) ==
    \E effects \in EffectLists, background \in BackgroundKinds :
        /\ UseEffects(node, "background", effects)
        /\ log' = Append(log, <<node, "background">>)
        /\ usedAlpha' = IF background = "color"
                        THEN parseColorWithAlpha(AlphaOne, alpha')
                        ELSE 0
        /\ IF background = "url"
           THEN /\ pending' = pending \cup {Suspension(node, "backgroundImage")}
                /\ live' = live \cup {"backgroundPath"}
           ELSE UNCHANGED <<pending, live>>
        /\ lastAction' = "renderNodeBackgroundAndBorders"

ContentKinds == {"empty", "text", "image", "svg", "iframe", "listImage"}

FirstAwait(kind) ==
    CASE kind = "image" -> "image"
      [] kind = "svg" -> "svgFetch"
      [] kind = "iframe" -> "iframe"
      [] kind = "listImage" -> "listImage"
      [] OTHER -> ""

(* renderNodeContent up to its first await                                 *)
renderNodeContent(node) ==
    \E effects \in EffectLists, kind \in ContentKinds :
        /\ UseEffects(node, "content", effects)
        /\ log' = Append(log, <<node, "content">>)
        /\ usedAlpha' = IF kind = "text"
                        THEN parseColorWithAlpha(AlphaOne, alpha')
                        ELSE 0
        /\ pending' = IF FirstAwait(kind) = "" THEN pending
                      ELSE pending \cup {Suspension(node, FirstAwait(kind))}
        /\ live' = IF kind = "iframe" THEN live \cup {"pictureRecorder"} ELSE live
        /\ lastAction' = "renderNodeContent"

-----------------------------------------------------------------------------
(* The walker's steps                                                      *)

Running == status = "running" /\ stack # <<>> /\ ~Blocked

AtEntry(fn) == Running /\ Top.fn = fn /\ Top.step = 0

AtStep(do) ==
    /\ Running
    /\ Top.step >= 1
    /\ Top.step <= Len(Body(Top.fn))
    /\ Body(Top.fn)[Top.step].do = do

Quiet == UNCHANGED <<tree, ObserverVars, OperationVars>>

(* render(): the page background, then renderStack(parseStackingContexts)  *)
RenderStart ==
    /\ status = "idle"
    /\ \E pageBackground \in BOOLEAN :
          usedAlpha' = IF pageBackground THEN parseColorWithAlpha(AlphaOne, alpha) ELSE 0
    /\ status' = "running"
    /\ stack' = <<Frame("renderStack", 1, 0, 0)>>
    /\ lastAction' = "render"
    /\ UNCHANGED <<invisible, log, EffectVars, pending, live>>
    /\ Quiet

EnterStack ==
    /\ AtEntry("renderStack")
    /\ \E visible \in BOOLEAN :
          /\ stack' = renderStack(stack, visible)
          /\ invisible' = IF visible THEN invisible ELSE invisible \cup {Top.node}
          /\ lastAction' = "renderStack"
    /\ usedAlpha' = 0
    /\ UNCHANGED <<status, log, EffectVars, pending, live>>
    /\ Quiet

EnterNode ==
    /\ AtEntry("renderNode")
    /\ \E visible \in BOOLEAN :
          /\ stack' = renderNodeEnter(stack, visible)
          /\ invisible' = IF visible THEN invisible ELSE invisible \cup {Top.node}
          /\ lastAction' = "renderNode"
    /\ usedAlpha' = 0
    /\ UNCHANGED <<status, log, EffectVars, pending, live>>
    /\ Quiet

PaintBackground ==
    /\ AtStep("background")
    /\ renderNodeBackgroundAndBorders(Top.node)
    /\ stack' = NextStatement(stack)
    /\ UNCHANGED <<status, invisible>>
    /\ Quiet

PaintContent ==
    /\ AtStep("content")
    /\ renderNodeContent(Top.node)
    /\ stack' = NextStatement(stack)
    /\ UNCHANGED <<status, invisible>>
    /\ Quiet

(* for (const child of stack.<bucket>) await this.<call>(child)            *)
CallChild ==
    /\ AtStep("loop")
    /\ LET statement == Body(Top.fn)[Top.step]
           child == Children(Top.node, statement.bucket)[Top.idx]
       IN /\ stack' = Append(Goto(stack, [Top EXCEPT !.idx = @ + 1]),
                             Frame(statement.call, child, 0, 0))
          /\ lastAction' = "call"
    /\ usedAlpha' = 0
    /\ UNCHANGED <<status, invisible, log, EffectVars, pending, live>>
    /\ Quiet

-----------------------------------------------------------------------------
(* Suspension points: the continuation of a paint call once the promise it *)
(* awaits has settled                                                      *)

Settled(s) == pending \ {s}

Awaiting(what) == {s \in pending : s.what = what}

SettleFrame == UNCHANGED <<status, stack, invisible, log, EffectVars>> /\ Quiet

(* renderBackgroundImage, URL layer: cache.match settled; a failure is     *)
(* caught by the layer's catch.  Then the caller restores the canvas and   *)
(* deletes backgroundPath.                                                 *)
BackgroundImageSettled ==
    \E s \in Awaiting("backgroundImage"), outcome \in {"image", "null", "reject"} :
        /\ pending' = Settled(s)
        /\ live' = live \ {"backgroundPath"}
        /\ usedAlpha' = 0
        /\ lastAction' = "backgroundImage"
        /\ SettleFrame

(* renderNodeContent, ImageElementContainer: cache.match settled, then     *)
(* convertCanvasImageSourceToSkia and renderReplacedElement inside try.    *)
(* The image, the clip path and the paint are deleted after drawImageRect; *)
(* when drawImageRect throws, the catch of renderNodeContent logs the      *)
(* error and deletes nothing.                                              *)
ImageSettled ==
    \E s \in Awaiting("image"),
       outcome \in {"image", "null", "reject", "drawThrows"} :
        /\ pending' = Settled(s)
        /\ live' = live \cup
                      (IF outcome = "drawThrows"
                       THEN {"skiaImage", "replacedPath", "replacedPaint"}
                       ELSE {})
        /\ usedAlpha' = 0
        /\ lastAction' = "image"
        /\ SettleFrame

(* renderNodeContent, SVGElementContainer: cache.match settled.  A cached  *)
(* SVGElement, or the element parsed from the markup, goes on to           *)
(* convertSvgToSkia, which is awaited in turn.                             *)
SvgFetched ==
    \E s \in Awaiting("svgFetch"),
       outcome \in {"element", "parsed", "unparsable", "reject"} :
        /\ pending' = IF outcome \in {"element", "parsed"}
                      THEN Settled(s) \cup {Suspension(s.node, "svgRaster")}
                      ELSE Settled(s)
        /\ usedAlpha' = 0
        /\ lastAction' = "svgFetch"
        /\ UNCHANGED live
        /\ SettleFrame

(* convertSvgToSkia: the promise is resolved by img.onload (an image, or   *)
(* null from MakeImage) and by img.onerror (null).  When the onload        *)
(* handler throws before it calls resolve, nothing ever settles the        *)
(* promise.                                                                *)
SvgImageLoaded ==
    \E s \in Awaiting("svgRaster"),
       outcome \in {"image", "null", "onloadThrows"} :
        /\ pending' = IF outcome = "onloadThrows"
                      THEN Settled(s) \cup {Suspension(s.node, "svgNeverSettles")}
                      ELSE Settled(s)
        /\ usedAlpha' = 0
        /\ lastAction' = "svgRaster"
        /\ UNCHANGED live
        /\ SettleFrame

(* renderNodeContent, IFrameElementContainer: the sub-render has resolved; *)
(* the picture is drawn inside save/restore, then picture and recorder are *)
(* deleted.                                                                *)
IframeRendered ==
    \E s \in Awaiting("iframe") :
        /\ pending' = Settled(s)
        /\ live' = live \ {"pictureRecorder"}
        /\ usedAlpha' = 0
        /\ lastAction' = "iframe"
        /\ SettleFrame

(* renderNodeContent, list-style-image: cache.match settled                *)
ListImageSettled ==
    \E s \in Awaiting("listImage"), outcome \in {"image", "null", "reject"} :
        /\ pending' = Settled(s)
        /\ usedAlpha' = 0
        /\ lastAction' = "listImage"
        /\ UNCHANGED live
        /\ SettleFrame

-----------------------------------------------------------------------------
(* The end of render() and calls made on the renderer from outside         *)

RenderFlush_Skipped(r) == r

(* this.applyEffects([]) at the end of render()                            *)
renderFlush(r) == applyEffects(r, <<>>)

RenderFinish ==
    /\ status = "running"
    /\ stack = <<>>
    /\ ~Blocked
    /\ LET r == renderFlush(RendererState(activeEffects, alpha, effSaves))
       IN /\ activeEffects' = r.active
          /\ alpha' = r.alpha
          /\ effSaves' = r.saves
          /\ unwound' = r.unwound
          /\ effectOps' = r.ops
    /\ status' = "resolved"
    /\ usedAlpha' = 0
    /\ requested' = <<>>
    /\ lastAction' = "renderFinish"
    /\ UNCHANGED <<tree, stack, invisible, log, effectOwner, pending, live, popResult>>
    /\ UNCHANGED OperationVars

(* applyEffects([]) called once more on the renderer after render()        *)
ApplyEffectsAgain ==
    /\ status = "resolved"
    /\ LET r == applyEffects(RendererState(activeEffects, alpha, effSaves), <<>>)
       IN /\ activeEffects' = r.active
          /\ alpha' = r.alpha
          /\ effSaves' = r.saves
          /\ unwound' = r.unwound
          /\ effectOps' = r.ops
    /\ requested' = <<>>
    /\ usedAlpha' = 0
    /\ lastAction' = "applyEffects"
    /\ UNCHANGED <<tree, status, stack, invisible, log, effectOwner, pending, live,
                   popResult>>
    /\ UNCHANGED OperationVars

-----------------------------------------------------------------------------
(* One render() call on a fresh renderer                                   *)

NewRenderer ==
    /\ status = "idle"
    /\ stack = <<>>
    /\ invisible = {}
    /\ log = <<>>
    /\ activeEffects = <<>>
    /\ alpha = GlobalAlpha_new
    /\ effSaves = 0
    /\ effectOwner = <<0, "">>
    /\ usedAlpha = 0
    /\ pending = {}
    /\ live = {}
    /\ lastAction = "new"
    /\ requested = <<>>
    /\ unwound = <<>>
    /\ effectOps = <<>>
    /\ popResult = 0

FreshRenderer ==
    /\ NewRenderer
    /\ operation = [op |-> "none"]
    /\ pc = "idle"
    /\ local = [op |-> "none"]
    /\ canvasCalls = <<>>

Init == tree \in Trees /\ FreshRenderer

Next ==
    \/ RenderStart
    \/ EnterStack
    \/ EnterNode
    \/ PaintBackground
    \/ PaintContent
    \/ CallChild
    \/ BackgroundImageSettled
    \/ ImageSettled
    \/ SvgFetched
    \/ SvgImageLoaded
    \/ IframeRendered
    \/ ListImageSettled
    \/ RenderFinish
    \/ ApplyEffectsAgain

Spec == Init /\ [][Next]_vars

-----------------------------------------------------------------------------
(* Properties of the walker                                                *)

IsPrefix(s, t) == Len(s) <= Len(t) /\ SubSeq(t, 1, Len(s)) = s

(* The CSS painting order of the subtree of node n, written down from the  *)
(* eight steps of the painting-order algorithm: the paint calls due for n  *)
(* and for everything below it, nodes found invisible left out.            *)
RECURSIVE PaintingOrder(_), PaintingOrderOfList(_, _, _)
PaintingOrder(n) ==
    LET bucket(b) == PaintingOrderOfList(n, b, 1)
    IN IF n \in invisible THEN <<>>
       ELSE IF tree[n].bucket \in NodeBuckets
            THEN << <<n, "background">>, <<n, "content">> >>
            ELSE << <<n, "background">> >>
                 \o bucket("negativeZIndex")
                 \o << <<n, "content">> >>
                 \o bucket("nonInlineLevel")
                 \o bucket("nonPositionedFloats")
                 \o bucket("nonPositionedInlineLevel")
                 \o bucket("inlineLevel")
                 \o bucket("zeroOrAutoZIndexOrTransformedOrOpacity")
                 \o bucket("positiveZIndex")

PaintingOrderOfList(c, b, from) ==
    LET members == {i \in from..Len(tree) : tree[i].parent = c /\ tree[i].bucket = b}
    IN IF members = {} THEN <<>>
       ELSE LET first == CHOOSE i \in members : \A j \in members : i <= j
            IN PaintingOrder(first) \o PaintingOrderOfList(c, b, first + 1)

(* C1: the paint calls of a render are issued in the fixed painting order  *)
(* (background, negative z-index contexts, content, block-level nodes,     *)
(* floats, inline-level contexts, inline-level nodes, zero/auto contexts,  *)
(* positive z-index contexts), list order inside a bucket, recursively in  *)
(* every child context: what has been issued so far is always a prefix of  *)
(* that order, and all of it once render() has resolved.                   *)
C1_PaintingOrder ==
    /\ IsPrefix(log, PaintingOrder(1))
    /\ status = "resolved" => log = PaintingOrder(1)

(* A resolved render of a root whose positive-z-index context was created  *)
(* before its negative-z-index context: the later one is painted first.    *)
C1_Witness ==
    /\ status = "resolved"
    /\ tree = << RootNode,
                 [parent |-> 1, bucket |-> "positiveZIndex"],
                 [parent |-> 1, bucket |-> "negativeZIndex"] >>
    /\ log = << <<1, "background">>, <<3, "background">>, <<3, "content">>,
                <<1, "content">>, <<2, "background">>, <<2, "content">> >>

(* Node m lies in the subtree of node n.                                    *)
RECURSIVE InSubtree(_, _)
InSubtree(m, n) ==
    \/ m = n
    \/ m > 1 /\ InSubtree(tree[m].parent, n)

LogNode(i) == log[i][1]

Siblings(a, b) == a # b /\ a > 1 /\ b > 1 /\ tree[a].parent = tree[b].parent

(* C2: at most one suspension is outstanding at any time; while a paint    *)
(* call is suspended no other paint call is issued, so what it draws once  *)
(* it resumes comes before the first call of the next sibling; and the     *)
(* calls of two siblings' subtrees are never interleaved.                  *)
C2_OneSuspension ==
    /\ Cardinality(pending) <= 1
    /\ \A s \in pending : log # <<>> /\ LogNode(Len(log)) = s.node
    /\ \A a, b \in Nodes :
          Siblings(a, b) =>
             \A i, j, k \in 1..Len(log) :
                ~ /\ i < j /\ j < k
                  /\ InSubtree(LogNode(i), a)
                  /\ InSubtree(LogNode(j), b)
                  /\ InSubtree(LogNode(k), a)

(* The first of two siblings of one bucket is suspended in the             *)
(* rasterisation of its SVG; the second has not been entered.              *)
C2_Witness ==
    /\ Len(tree) = 3
    /\ Siblings(2, 3)
    /\ tree[2].bucket = tree[3].bucket
    /\ pending = {Suspension(2, "svgRaster")}
    /\ \A i \in 1..Len(log) : LogNode(i) # 3

(* C3: once render() has resolved, no effect is active, no canvas save of  *)
(* an effect is open and the alpha stack holds its base entry alone; an    *)
(* applyEffects([]) called after that leaves it so and issues no canvas    *)
(* call.                                                                   *)
C3_FlushedAfterRender ==
    status = "resolved" =>
        /\ activeEffects = <<>>
        /\ alpha = <<AlphaOne>>
        /\ effSaves = 0
        /\ lastAction = "applyEffects" => effectOps = <<>> /\ unwound = <<>>

(* render() has just resolved and its final applyEffects([]) has unwound   *)
(* two effects, an opacity among them, that the last paint call left.      *)
C3_Witness ==
    /\ status = "resolved"
    /\ lastAction = "renderFinish"
    /\ Len(unwound) = 2
    /\ \E i \in 1..2 : isOpacityEffect(unwound[i])
    /\ effectOps = <<"restore", "restore">>

-----------------------------------------------------------------------------
(* applyEffects called on its own, over and over, with any requested list  *)
(* on whatever the call before it left active                              *)

MaxEffects == 2

ApplyEffectsCall ==
    \E effects \in EffectListsUpTo(MaxEffects) :
        LET r == applyEffects(RendererState(activeEffects, alpha, effSaves), effects)
        IN /\ activeEffects' = r.active
           /\ alpha' = r.alpha
           /\ effSaves' = r.saves
           /\ unwound' = r.unwound
           /\ effectOps' = r.ops
           /\ requested' = effects
           /\ lastAction' = "applyEffects"
           /\ UNCHANGED <<tree, status, stack, invisible, log, effectOwner, usedAlpha,
                          pending, live, popResult>>
           /\ UNCHANGED OperationVars

InitEffects == tree = <<RootNode>> /\ FreshRenderer

NextEffects == ApplyEffectsCall

SpecEffects == InitEffects /\ [][NextEffects]_vars

Reverse(s) == [i \in 1..Len(s) |-> s[Len(s) + 1 - i]]

Count(s, x) == Cardinality({i \in 1..Len(s) : s[i] = x})

(* C4: when applyEffects(requested) returns the active effects are the     *)
(* requested ones, in order; the effects active before were unwound last   *)
(* applied first, one canvas restore each, and every restore came before   *)
(* the first save of a requested effect.                                   *)
C4_ActiveEqualsRequested ==
    [][lastAction' = "applyEffects" =>
          /\ activeEffects' = requested'
          /\ Len(activeEffects') = Len(requested')
          /\ unwound' = Reverse(activeEffects)
          /\ Len(effectOps') >= Len(activeEffects)
          /\ \A i \in 1..Len(effectOps') :
                effectOps'[i] = "restore" <=> i <= Len(activeEffects)
          /\ Count(effectOps', "save") = Len(requested')
          /\ effSaves' = Len(requested')]_vars

(* A call that replaced two active effects by two other ones.              *)
C4_Witness ==
    /\ lastAction = "applyEffects"
    /\ Len(unwound) = 2
    /\ unwound[1] # unwound[2]
    /\ Len(requested) = 2
    /\ requested[1] # requested[2]
    /\ requested # Reverse(unwound)
    /\ activeEffects = requested

-----------------------------------------------------------------------------
(* Properties of the effect stack during a render                          *)

OpacityCount(effects) ==
    Cardinality({i \in 1..Len(effects) : isOpacityEffect(effects[i])})

(* The renderer is still inside the subtree of node n: a call for n is on  *)
(* the call stack, or a paint call of n or of a node below it is suspended *)
InProgress(n) ==
    \/ \E i \in 1..Len(stack) : stack[i].node = n
    \/ \E s \in pending : InSubtree(s.node, n)

(* C5 as stated: the effects a node requested are popped before the        *)
(* renderer returns from that node's subtree.                              *)
C5_PoppedBeforeReturn ==
    activeEffects # <<>> => InProgress(effectOwner[1])

(* C5: every effect push is matched by exactly one pop: each active effect *)
(* holds one open canvas save, each active opacity effect one alpha entry; *)
(* the pop comes with the next applyEffects call, so the active effects    *)
(* are always those of the latest paint call, and none is left when        *)
(* render() has resolved.                                                  *)
C5_PoppedByNextApplyEffects ==
    /\ effSaves = Len(activeEffects)
    /\ Len(alpha) = 1 + OpacityCount(activeEffects)
    /\ activeEffects # <<>> =>
          /\ status = "running"
          /\ log # <<>>
          /\ effectOwner = log[Len(log)]
          /\ activeEffects = requested
    /\ status = "resolved" => effSaves = 0 /\ Len(alpha) = 1

(* The renderer has returned from the subtree of a node other than the     *)
(* root and is about to enter the next one; the effects that node          *)
(* requested, an opacity among them, are still active.                     *)
C5_Witness ==
    /\ status = "running"
    /\ stack # <<>>
    /\ Top.step = 0
    /\ effectOwner[1] > 1
    /\ ~InProgress(effectOwner[1])
    /\ OpacityCount(activeEffects) >= 1
    /\ effSaves = Len(activeEffects)

-----------------------------------------------------------------------------
(* The global-alpha stack on its own: any sequence of push, pop and colour *)
(* resolution on a new GlobalAlpha                                         *)

AlphaFrame ==
    UNCHANGED <<tree, status, stack, invisible, log, activeEffects, effSaves,
                effectOwner, pending, live, requested, unwound, effectOps,
                OperationVars>>

AlphaPush ==
    /\ Len(alpha) <= MaxAlphaDepth
    /\ \E value \in OpacityValues : alpha' = GlobalAlpha_push(alpha, value)
    /\ lastAction' = "push"
    /\ UNCHANGED <<usedAlpha, popResult>>
    /\ AlphaFrame

AlphaPop ==
    /\ alpha' = GlobalAlpha_pop(alpha).stack
    /\ popResult' = GlobalAlpha_pop(alpha).result
    /\ lastAction' = "pop"
    /\ UNCHANGED usedAlpha
    /\ AlphaFrame

(* parseColorWithAlpha of an opaque colour                                 *)
AlphaResolve ==
    /\ usedAlpha' = parseColorWithAlpha(AlphaOne, alpha)
    /\ lastAction' = "resolve"
    /\ UNCHANGED <<alpha, popResult>>
    /\ AlphaFrame

InitAlpha == tree = <<RootNode>> /\ FreshRenderer

NextAlpha == AlphaPush \/ AlphaPop \/ AlphaResolve

SpecAlpha == InitAlpha /\ [][NextAlpha]_vars

(* C6: after any pushes and pops the alpha stack is not empty and its      *)
(* bottom entry is 1; a pop on the base-only stack answers 1 and leaves    *)
(* the stack as it was; a colour is resolved with the top entry.           *)
C6_AlphaStackBase ==
    /\ [](Len(alpha) >= 1 /\ alpha[1] = AlphaOne)
    /\ [][/\ AlphaPop /\ Len(alpha) = 1 => popResult' = AlphaOne /\ alpha' = alpha
          /\ AlphaPop /\ Len(alpha) > 1 =>
                /\ popResult' = alpha[Len(alpha)]
                /\ alpha' = SubSeq(alpha, 1, Len(alpha) - 1)
          /\ AlphaResolve => usedAlpha' = alpha[Len(alpha)]]_vars

(* A pop has just been answered with 1, which no push ever put on the      *)
(* stack: it was made on the base-only stack; before it a colour was       *)
(* resolved while a pushed entry was on top.                               *)
C6_Witness ==
    /\ lastAction = "pop"
    /\ alpha = <<AlphaOne>>
    /\ popResult = AlphaOne
    /\ usedAlpha \in OpacityValues

-----------------------------------------------------------------------------
(* Properties of a render: alpha, native objects, failures, visibility     *)

(* The product of the opacity values of the opacity effects in a list.     *)
RECURSIVE CumulativeOpacity(_)
CumulativeOpacity(effects) ==
    IF effects = <<>> THEN AlphaOne
    ELSE LET rest == CumulativeOpacity(SubSeq(effects, 1, Len(effects) - 1))
             last == effects[Len(effects)]
         IN IF isOpacityEffect(last) THEN (rest * last.opacity) \div AlphaOne ELSE rest

(* C7: the alpha an opaque colour is resolved with is the product of the   *)
(* opacity values of all the opacity effects active at that moment.        *)
C7_AlphaIsProduct ==
    usedAlpha # 0 => usedAlpha = CumulativeOpacity(activeEffects)

(* C8: whenever no paint call is suspended, every native object created so *)
(* far has been deleted.                                                   *)
C8_AllReleased ==
    pending = {} => live = {}

(* C9: a render that has started goes on to resolve whatever the fetches   *)
(* and conversions of its nodes answer: short of resolving, it always has  *)
(* a next step.                                                            *)
C9_RenderResolves ==
    status = "running" => ENABLED Next

(* Some paint call has been issued for node n or for a node below it.      *)
PaintedBelow(n) == \E i \in 1..Len(log) : InSubtree(LogNode(i), n)

(* C10: the step in which renderStack or renderNode finds its element not  *)
(* visible issues no paint call, no canvas save or restore, leaves the     *)
(* effect stack and the alpha stack alone, suspends on nothing and creates *)
(* nothing; no call is ever made and no paint call ever issued for the     *)
(* node or for anything below it.  A visible node of a node bucket gets    *)
(* its background and borders and then, next, its content, and calls       *)
(* nothing from there.                                                     *)
C10_InvisibleDoesNothing ==
    /\ [](\A n \in invisible :
             /\ ~PaintedBelow(n)
             /\ \A i \in 1..Len(stack) : ~InSubtree(stack[i].node, n))
    /\ [](\A i \in 1..Len(log) :
             (tree[LogNode(i)].bucket \in NodeBuckets /\ log[i][2] = "content") =>
                 i > 1 /\ log[i - 1] = <<LogNode(i), "background">>)
    /\ [](\A i \in 1..Len(stack) : stack[i].fn = "renderNode" => i = Len(stack))
    /\ [][invisible' # invisible =>
             /\ log' = log
             /\ UNCHANGED <<activeEffects, alpha, effSaves, pending, live>>
             /\ Len(stack') < Len(stack)]_vars

(* A resolved render: the root's negative-z-index context was found        *)
(* invisible, the inline-level node it holds was never reached, and the    *)
(* paint calls are those of the root alone.                                *)
C10_Witness ==
    /\ status = "resolved"
    /\ tree = << RootNode,
                 [parent |-> 1, bucket |-> "negativeZIndex"],
                 [parent |-> 2, bucket |-> "inlineLevel"] >>
    /\ invisible = {2}
    /\ log = << <<1, "background">>, <<1, "content">> >>

-----------------------------------------------------------------------------
(* The iframe branch of renderNodeContent on its own: the parent renderer  *)
(* applies the container's content effects, builds a renderer for the      *)
(* iframe's tree on a recording canvas, awaits its render() and draws the  *)
(* recorded picture on its own canvas.                                     *)

MaxIframePaints == 2

IframeRenderer_ParentInstance == "parent"

(* new SkiaRenderer(...): the renderer whose stacks the iframe's render()  *)
(* works on                                                                *)
IframeRendererInstance == "iframe"

Stacks(active, a, saves) == [active |-> active, alpha |-> a, saves |-> saves]

(* The field initialisers of a SkiaRenderer                                *)
NewRendererStacks == Stacks(<<>>, GlobalAlpha_new, 0)

ParentStacks == Stacks(activeEffects, alpha, effSaves)

IframeFrame ==
    UNCHANGED <<tree, status, stack, invisible, log, effectOwner, usedAlpha, pending,
                unwound, effectOps, popResult>>

(* renderNodeContent of an IFrameElementContainer up to the await          *)
IframeBegin ==
    /\ pc = "idle"
    /\ \E effects \in EffectListsUpTo(MaxEffects) :
          LET r == applyEffects(RendererState(activeEffects, alpha, effSaves), effects)
          IN /\ activeEffects' = r.active
             /\ alpha' = r.alpha
             /\ effSaves' = r.saves
             /\ requested' = effects
             /\ operation' = [op |-> "iframe", effects |-> effects]
             /\ local' = [before |-> Stacks(r.active, r.alpha, r.saves),
                          iframe |-> NewRendererStacks,
                          paints |-> 0,
                          painted |-> <<>>]
    /\ pc' = "recording"
    /\ live' = live \cup {"pictureRecorder"}
    /\ canvasCalls' = <<>>
    /\ lastAction' = "renderNodeContent"
    /\ IframeFrame

(* applyEffects(effects) made by the iframe's renderer                     *)
IframeApplyEffects(effects) ==
    IF IframeRendererInstance = "iframe"
    THEN LET r == applyEffects(RendererState(local.iframe.active, local.iframe.alpha,
                                             local.iframe.saves), effects)
         IN /\ local' = [local EXCEPT !.iframe = Stacks(r.active, r.alpha, r.saves),
                                      !.paints = @ + 1,
                                      !.painted = IF effects = <<>> THEN @ ELSE effects]
            /\ UNCHANGED <<activeEffects, alpha, effSaves>>
    ELSE LET r == applyEffects(RendererState(activeEffects, alpha, effSaves), effects)
         IN /\ activeEffects' = r.active
            /\ alpha' = r.alpha
            /\ effSaves' = r.saves
            /\ local' = [local EXCEPT !.paints = @ + 1,
                                      !.painted = IF effects = <<>> THEN @ ELSE effects]

(* A paint call of the iframe's render()                                   *)
IframePaint ==
    /\ pc = "recording"
    /\ local.paints < MaxIframePaints
    /\ \E effects \in EffectListsUpTo(MaxEffects) : IframeApplyEffects(effects)
    /\ lastAction' = "iframePaint"
    /\ UNCHANGED <<operation, pc, canvasCalls, live, requested>>
    /\ IframeFrame

(* The end of the iframe's render(): this.applyEffects([])                 *)
IframeRenderResolved ==
    /\ pc = "recording"
    /\ IframeApplyEffects(<<>>)
    /\ pc' = "rendered"
    /\ lastAction' = "iframeRender"
    /\ UNCHANGED <<operation, canvasCalls, live, requested>>
    /\ IframeFrame

(* finishRecordingAsPicture, then the picture drawn on the parent's canvas *)
(* inside save/restore, then picture and recorder deleted                  *)
IframeComposite ==
    /\ pc = "rendered"
    /\ canvasCalls' = <<"save", "translate", "scale", "drawPicture", "restore">>
    /\ live' = live \ {"pictureRecorder"}
    /\ pc' = "done"
    /\ lastAction' = "iframe"
    /\ UNCHANGED <<operation, local, activeEffects, alpha, effSaves, requested>>
    /\ IframeFrame

InitIframe == tree = <<RootNode>> /\ FreshRenderer

NextIframe == IframeBegin \/ IframePaint \/ IframeRenderResolved \/ IframeComposite

SpecIframe == InitIframe /\ [][NextIframe]_vars

(* C11: the iframe's renderer starts with no active effect and a base-only *)
(* alpha stack of its own; from the moment it is built until the picture   *)
(* has been composited the parent's active effects, alpha stack and effect *)
(* saves stay what they were, whatever the iframe's tree requests; the     *)
(* compositing restores every canvas save it makes.                        *)
C11_IframeIsolated ==
    /\ pc \in {"recording", "rendered", "done"} =>
          /\ ParentStacks = local.before
          /\ activeEffects = operation.effects
    /\ (pc = "recording" /\ local.paints = 0) => local.iframe = NewRendererStacks
    /\ pc = "done" =>
          /\ Count(canvasCalls, "save") = Count(canvasCalls, "restore")
          /\ local.iframe = NewRendererStacks

(* The picture of an iframe whose tree requested two effects, an opacity   *)
(* among them, has been composited by a parent that holds other effects.   *)
C11_Witness ==
    /\ pc = "done"
    /\ Len(activeEffects) = 2
    /\ local.paints = MaxIframePaints + 1
    /\ Len(local.painted) = 2
    /\ OpacityCount(local.painted) >= 1
    /\ local.painted # activeEffects
    /\ OpacityCount(activeEffects) = 0

-----------------------------------------------------------------------------
(* renderNodeContent on its own, for one container after the other on one  *)
(* canvas: the PDF tag marker around the draw calls of a container         *)

MaxContentNodes == 2

CanvasCall(name, node, tag) == [call |-> name, node |-> node, tag |-> tag]

(* if (container.pdfTagNodeId) SetPDFTagId(canvas, container.pdfTagNodeId) *)
openTag(container) ==
    IF container.pdfTagNodeId # 0
    THEN <<CanvasCall("SetPDFTagId", container.node, container.pdfTagNodeId)>>
    ELSE <<>>

CloseTag_Never(container) == <<>>

(* if (container.pdfTagNodeId) SetPDFTagId(canvas, 0)                      *)
closeTag(container) ==
    IF container.pdfTagNodeId # 0
    THEN <<CanvasCall("SetPDFTagId", container.node, 0)>>
    ELSE <<>>

(* renderTextNode for every text node, drawImageRect of a replaced element *)
drawContent(container, n) ==
    [i \in 1..n |-> CanvasCall("draw", container.node, container.pdfTagNodeId)]

ContentFrame ==
    UNCHANGED <<tree, status, stack, invisible, log, activeEffects, alpha, effSaves,
                effectOwner, usedAlpha, pending, live, requested, unwound, effectOps,
                popResult>>

(* The containers whose renderNodeContent has returned.                    *)
ContentDone == IF local.op = "none" THEN 0 ELSE local.done

(* renderNodeContent(paint) up to its first await, or to its end           *)
ContentBegin ==
    /\ pc = "idle"
    /\ ContentDone < MaxContentNodes
    /\ \E tagged \in BOOLEAN, textNodes \in 0..1, kind \in {"plain", "image", "iframe"} :
          LET node == ContentDone + 1
              container == [node |-> node,
                            pdfTagNodeId |-> IF tagged THEN node ELSE 0,
                            kind |-> kind]
              head == canvasCalls \o openTag(container) \o drawContent(container, textNodes)
          IN /\ operation' = [op |-> "renderNodeContent", container |-> container]
             /\ local' = [op |-> "renderNodeContent",
                          done |-> IF kind = "plain" THEN node ELSE node - 1]
             /\ CASE kind = "image"  -> canvasCalls' = head /\ pc' = "awaitImage"
                  [] kind = "iframe" -> canvasCalls' = head /\ pc' = "awaitIframe"
                  [] kind = "plain"  -> /\ canvasCalls' = head \o closeTag(container)
                                        /\ pc' = "idle"
    /\ lastAction' = "renderNodeContent"
    /\ ContentFrame

(* cache.match(container.src) settled: the image drawn or the failure      *)
(* logged, then the rest of renderNodeContent                              *)
ContentImageSettled ==
    /\ pc = "awaitImage"
    /\ \E outcome \in {"image", "null", "reject"} :
          canvasCalls' = canvasCalls
                            \o drawContent(operation.container,
                                           IF outcome = "image" THEN 1 ELSE 0)
                            \o closeTag(operation.container)
    /\ pc' = "idle"
    /\ local' = [local EXCEPT !.done = @ + 1]
    /\ lastAction' = "image"
    /\ UNCHANGED operation
    /\ ContentFrame

(* iframeRenderer.render(container.tree) settled. The await is in no try  *)
(* block: a rejection leaves renderNodeContent, and with it render(), at   *)
(* the await; otherwise the picture is drawn and the rest runs.            *)
ContentIframeSettled ==
    /\ pc = "awaitIframe"
    /\ \E outcome \in {"rendered", "reject"} :
          IF outcome = "rendered"
          THEN /\ canvasCalls' = canvasCalls \o drawContent(operation.container, 1)
                                             \o closeTag(operation.container)
               /\ pc' = "idle"
               /\ local' = [local EXCEPT !.done = @ + 1]
          ELSE /\ pc' = "rejected"
               /\ UNCHANGED <<canvasCalls, local>>
    /\ lastAction' = "iframe"
    /\ UNCHANGED operation
    /\ ContentFrame

InitContent == tree = <<RootNode>> /\ FreshRenderer

NextContent == ContentBegin \/ ContentImageSettled \/ ContentIframeSettled

SpecContent == InitContent /\ [][NextContent]_vars

(* The tag marker in force after the k-th canvas call.                     *)
Marker(k) ==
    LET sets == {i \in 1..k : canvasCalls[i].call = "SetPDFTagId"}
    IN IF sets = {} THEN 0
       ELSE canvasCalls[CHOOSE i \in sets : \A j \in sets : j <= i].tag

(* C12: every draw call of a container's content is issued under that      *)
(* container's tag marker, and under no marker when it has no tag id: the  *)
(* marker is opened before the first draw call, closed after the last one  *)
(* and no other container draws while it is open; whenever                 *)
(* renderNodeContent has returned the marker is closed.                    *)
C12_TagAroundContent ==
    /\ \A k \in 1..Len(canvasCalls) :
          canvasCalls[k].call = "draw" => Marker(k) = canvasCalls[k].tag
    /\ pc = "idle" => Marker(Len(canvasCalls)) = 0
    /\ pc \in {"awaitImage", "awaitIframe"}
          => Marker(Len(canvasCalls)) = operation.container.pdfTagNodeId

(* A tagged image container with a text node, its image drawn after the    *)
(* await, followed by an untagged container that draws a text node.        *)
C12_Witness ==
    /\ pc = "idle"
    /\ canvasCalls = << CanvasCall("SetPDFTagId", 1, 1),
                        CanvasCall("draw", 1, 1),
                        CanvasCall("draw", 1, 1),
                        CanvasCall("SetPDFTagId", 1, 0),
                        CanvasCall("draw", 2, 0) >>
    /\ lastAction = "renderNodeContent"

(***************************************************************************)
(* renderBackgroundImage: the layers of one container.                     *)
(***************************************************************************)
MaxLayers == 3

LayerKinds == {"url", "linear", "radial", "other"}

(* container.styles.backgroundImage: every layer carries the position it   *)
(* was declared at (0-based), which is its identity in the canvas calls.   *)
BackgroundImages ==
    UNION {{[i \in 1..n |-> [kind |-> kinds[i], declared |-> i - 1]] :
                kinds \in [1..n -> LayerKinds]} : n \in 0..MaxLayers}

(* What one layer can do, by kind: a URL layer rejects or misses in the    *)
(* cache (no layout), converts to no Skia image (layout, no draw) or is    *)
(* drawn; a gradient is always laid out and drawn when its size and shader *)
(* allow; any other kind is passed over.                                   *)
LayerOutcomes(kind) ==
    CASE kind = "url"    -> {"reject", "null", "noImage", "drawn"}
      [] kind = "linear" -> {"noShader", "drawn"}
      [] kind = "radial" -> {"noRadius", "noShader", "drawn"}
      [] kind = "other"  -> {"none"}

isLaidOut(outcome) == outcome \in {"noImage", "noShader", "noRadius", "drawn"}

IndexAfter_OnlyWhenDrawn(index, outcome) ==
    IF outcome = "drawn" THEN index - 1 ELSE index

(* index--; at the end of every iteration                                  *)
indexAfter(index, outcome) == index - 1

LayerCall(name, layer, index) ==
    [call |-> name, layer |-> layer.declared, index |-> index]

BackgroundFrame ==
    UNCHANGED <<tree, status, stack, invisible, log, activeEffects, alpha, effSaves,
                effectOwner, usedAlpha, pending, live, requested, unwound, effectOps,
                popResult>>

(* One iteration of the for loop over backgroundImage.slice(0).reverse()   *)
BackgroundLayer ==
    /\ pc = "layers"
    /\ local.k <= Len(local.reversed)
    /\ LET backgroundImage == local.reversed[local.k]
       IN \E outcome \in LayerOutcomes(backgroundImage.kind) :
             /\ canvasCalls' = canvasCalls
                    \o (IF isLaidOut(outcome)
                        THEN <<LayerCall("calculateBackgroundRendering",
                                         backgroundImage, local.index)>>
                        ELSE <<>>)
                    \o (IF outcome = "drawn"
                        THEN <<LayerCall("draw", backgroundImage, local.index)>>
                        ELSE <<>>)
             /\ local' = [local EXCEPT !.k = @ + 1,
                                       !.index = indexAfter(@, outcome)]
    /\ lastAction' = "layer"
    /\ UNCHANGED <<operation, pc>>
    /\ BackgroundFrame

(* The loop is over: renderBackgroundImage resolves.                       *)
BackgroundReturn ==
    /\ pc = "layers"
    /\ local.k > Len(local.reversed)
    /\ pc' = "done"
    /\ lastAction' = "return"
    /\ UNCHANGED <<operation, local, canvasCalls>>
    /\ BackgroundFrame

(* let index = backgroundImage.length - 1, before the first iteration      *)
InitBackground ==
    /\ tree = <<RootNode>>
    /\ NewRenderer
    /\ \E layers \in BackgroundImages :
          /\ operation = [op |-> "renderBackgroundImage", backgroundImage |-> layers]
          /\ local = [op |-> "renderBackgroundImage", reversed |-> Reverse(layers),
                      k |-> 1, index |-> Len(layers) - 1]
    /\ pc = "layers"
    /\ canvasCalls = <<>>

NextBackground == BackgroundLayer \/ BackgroundReturn

SpecBackground == InitBackground /\ [][NextBackground]_vars

(* C13: every layer that is laid out is laid out with the index it was     *)
(* declared at, whatever the layers processed before it did, and the       *)
(* canvas calls run from the last-declared layer to the first-declared.    *)
C13_LayerOrderAndIndex ==
    /\ \A i \in 1..Len(canvasCalls) : canvasCalls[i].index = canvasCalls[i].layer
    /\ \A i, j \in 1..Len(canvasCalls) :
          i < j => canvasCalls[i].layer >= canvasCalls[j].layer

(* Three layers, the last-declared URL layer failed to load, the gradient  *)
(* declared second was skipped after layout, the first-declared was drawn. *)
C13_Witness ==
    /\ pc = "done"
    /\ operation.backgroundImage = << [kind |-> "linear", declared |-> 0],
                                      [kind |-> "radial", declared |-> 1],
                                      [kind |-> "url", declared |-> 2] >>
    /\ canvasCalls = << [call |-> "calculateBackgroundRendering", layer |-> 1, index |-> 1],
                        [call |-> "calculateBackgroundRendering", layer |-> 0, index |-> 0],
                        [call |-> "draw", layer |-> 0, index |-> 0] >>

(***************************************************************************)
(* renderTextNode and renderTextWithLetterSpacing: the fill layer of one   *)
(* text run, with its text shadows.                                        *)
(***************************************************************************)
MaxClusters == 3
MaxShadows == 2

(* The grapheme clusters of the run. In the primary font "a" and " " are   *)
(* one glyph, "e" is a cluster of two glyphs, "x" and "z" have no glyph;   *)
(* the fallback provider covers "x" and has no typeface for "z".           *)
Graphemes == {"a", "e", "x", "z", " "}

(* textBounds.text: parseTextBounds makes text bounds of the non-empty     *)
(* segments of a text node only.                                           *)
Texts == UNION {[1..n -> Graphemes] : n \in 1..MaxClusters}

LetterSpacings == {0, 2}

(* Glyph ids and advance widths of the two typefaces. Glyph ids index the  *)
(* typeface they come from: id 0 is each typeface's own .notdef glyph.     *)
PrimaryGlyphIDs == [g \in Graphemes |->
    CASE g = "a" -> <<1>> [] g = "e" -> <<1, 2>> [] g = " " -> <<3>>
      [] g = "x" -> <<0>> [] g = "z" -> <<0>>]

FallbackGlyphIDs == [g \in Graphemes |->
    CASE g = "x" -> <<2>> [] g = "a" -> <<1>> [] g = "e" -> <<1, 3>>
      [] g = " " -> <<3>> [] g = "z" -> <<0>>]

GlyphWidths == [f \in {"primary", "fallback"} |->
    IF f = "primary" THEN [id \in 0..3 |-> CASE id = 0 -> 5 [] id = 1 -> 6
                                             [] id = 2 -> 8 [] id = 3 -> 4]
                     ELSE [id \in 0..3 |-> CASE id = 0 -> 3 [] id = 1 -> 7
                                             [] id = 2 -> 9 [] id = 3 -> 4]]

RECURSIVE Flatten(_)
Flatten(ss) == IF ss = <<>> THEN <<>> ELSE Head(ss) \o Flatten(Tail(ss))

(* font.getGlyphIDs(str) of the primary font, str given by its clusters    *)
getGlyphIDs(letters) == Flatten([i \in 1..Len(letters) |-> PrimaryGlyphIDs[letters[i]]])

(* finalFont.getGlyphWidths(glyphIDs, paint)                               *)
getGlyphWidths(finalFont, glyphIDs) ==
    [i \in 1..Len(glyphIDs) |-> GlyphWidths[finalFont][glyphIDs[i]]]

(* glyphs.length === 0 || glyphs.some(g => g === 0)                        *)
hasMissingGlyph(glyphs) == Len(glyphs) = 0 \/ \E i \in 1..Len(glyphs) : glyphs[i] = 0

AreGlyphsMissing_Never(letters) == FALSE

areGlyphsMissing(letters) == hasMissingGlyph(getGlyphIDs(letters))

(* options.fallbackFontProvider?.getFallbackFontTypeface(letter)           *)
getFallbackFontTypeface(letter) == IF letter = "x" THEN "fallback" ELSE "none"

(* widths.length > 0 ? widths[0] : 0                                       *)
letterWidth(widths) == IF Len(widths) > 0 THEN widths[1] ELSE 0

(* textBounds.text.trim().length                                           *)
isBlank(letters) == \A i \in 1..Len(letters) : letters[i] = " "

(* The paints and fonts of renderTextNode: fillPaint or the shadowPaint of *)
(* the textShadow declared at a position; the caller's font or the n-th    *)
(* temporary font made from a fallback typeface.                           *)
FillPaint == [kind |-> "fill", shadow |-> 0]
ShadowPaint(textShadow) == [kind |-> "shadow", shadow |-> textShadow]
PrimaryFont == [kind |-> "primary", n |-> 0]
FallbackFont(n) == [kind |-> "fallback", n |-> n]
NoFont == [kind |-> "none", n |-> 0]

TextCall(by, name, paint, font, letters, x) ==
    [by |-> by, call |-> name, paint |-> paint, font |-> font, text |-> letters,
     x |-> x]

RunCall(name, paint, font, letters, x) ==
    TextCall("renderTextWithLetterSpacing", name, paint, font, letters, x)

NodeCall(name, paint, font) == TextCall("renderTextNode", name, paint, font, <<>>, 0)

ReleaseFallback_Never(paint, fallbackFont) == <<>>

(* fallbackFont?.delete()                                                  *)
releaseFallback(paint, fallbackFont) ==
    IF fallbackFont = NoFont THEN <<>>
    ELSE <<RunCall("delete", paint, fallbackFont, <<>>, 0)>>

TextFrame ==
    UNCHANGED <<tree, status, stack, invisible, log, activeEffects, alpha, effSaves,
                effectOwner, usedAlpha, pending, live, requested, unwound, effectOps,
                popResult>>

(* renderTextWithLetterSpacing is entered: the fast path draws the whole   *)
(* run, otherwise the reduce over the clusters starts at bounds.left       *)
TextRunStart ==
    /\ pc = "run"
    /\ IF operation.letterSpacing = 0 /\ ~areGlyphsMissing(operation.text)
       THEN /\ canvasCalls' = Append(canvasCalls,
                    RunCall("drawText", local.paint, PrimaryFont, operation.text, 0))
            /\ pc' = "afterRun"
            /\ local' = [local EXCEPT !.path = "fast"]
       ELSE /\ pc' = "clusters"
            /\ local' = [local EXCEPT !.path = "slow", !.k = 1, !.left = 0]
            /\ UNCHANGED canvasCalls
    /\ lastAction' = "renderTextWithLetterSpacing"
    /\ UNCHANGED operation
    /\ TextFrame

(* One call of the reducer: one grapheme cluster                           *)
TextCluster ==
    /\ pc = "clusters"
    /\ local.k <= Len(operation.text)
    /\ LET letter == operation.text[local.k]
           glyphIDs == PrimaryGlyphIDs[letter]
           typeface == IF hasMissingGlyph(glyphIDs)
                       THEN getFallbackFontTypeface(letter) ELSE "none"
           fallbackFont == IF typeface = "none" THEN NoFont
                           ELSE FallbackFont(local.fonts + 1)
           finalFont == IF fallbackFont = NoFont THEN PrimaryFont ELSE fallbackFont
           widths == getGlyphWidths(finalFont.kind, glyphIDs)
       IN /\ canvasCalls' = canvasCalls
                \o (IF fallbackFont = NoFont THEN <<>>
                    ELSE <<RunCall("new Font", local.paint, fallbackFont, <<>>, 0)>>)
                \o << RunCall("drawText", local.paint, finalFont, <<letter>>, local.left),
                      RunCall("getGlyphWidths", local.paint, finalFont, <<letter>>, 0) >>
                \o releaseFallback(local.paint, fallbackFont)
          /\ local' = [local EXCEPT
                          !.k = @ + 1,
                          !.fonts = IF fallbackFont = NoFont THEN @ ELSE @ + 1,
                          !.left = @ + letterWidth(widths) + operation.letterSpacing,
                          !.advances = Append(@, [letter |-> letter, font |-> finalFont.kind,
                                                  paint |-> local.paint, x |-> local.left,
                                                  advance |-> letterWidth(widths)
                                                              + operation.letterSpacing])]
    /\ lastAction' = "cluster"
    /\ UNCHANGED <<operation, pc>>
    /\ TextFrame

(* The reduce is over: renderTextWithLetterSpacing returns                 *)
TextRunReturn ==
    /\ pc = "clusters"
    /\ local.k > Len(operation.text)
    /\ pc' = "afterRun"
    /\ lastAction' = "return"
    /\ UNCHANGED <<operation, local, canvasCalls>>
    /\ TextFrame

(* renderTextNode after a run: after the fill run the text shadows are     *)
(* taken in reverse; after a shadow run its canvas state is restored;      *)
(* then the next shadow is set up, or the font is deleted at the end.      *)
TextAfterRun ==
    /\ pc = "afterRun"
    /\ LET shadows == IF local.paint = FillPaint
                      THEN IF Len(operation.textShadows) > 0 /\ ~isBlank(operation.text)
                           THEN Reverse(operation.textShadows) ELSE <<>>
                      ELSE Tail(local.shadows)
           closing == IF local.paint = FillPaint THEN <<>>
                      ELSE <<NodeCall("restore", local.paint, NoFont)>>
       IN IF shadows # <<>>
          THEN /\ canvasCalls' = canvasCalls \o closing
                    \o << NodeCall("save", ShadowPaint(Head(shadows)), NoFont),
                          NodeCall("translate", ShadowPaint(Head(shadows)), NoFont) >>
               /\ local' = [local EXCEPT !.paint = ShadowPaint(Head(shadows)),
                                         !.shadows = shadows, !.k = 0]
               /\ pc' = "run"
          ELSE /\ canvasCalls' = canvasCalls \o closing
                    \o <<NodeCall("delete", FillPaint, PrimaryFont)>>
               /\ local' = [local EXCEPT !.shadows = <<>>]
               /\ pc' = "done"
    /\ lastAction' = "renderTextNode"
    /\ UNCHANGED operation
    /\ TextFrame

InitText ==
    /\ tree = <<RootNode>>
    /\ NewRenderer
    /\ \E letters \in Texts, letterSpacing \in LetterSpacings, n \in 0..MaxShadows :
          operation = [op |-> "renderTextNode", text |-> letters,
                       letterSpacing |-> letterSpacing,
                       textShadows |-> [i \in 1..n |-> i]]
    /\ local = [op |-> "renderTextNode", paint |-> FillPaint, shadows |-> <<>>, k |-> 0,
                left |-> 0, fonts |-> 0, path |-> "none", advances |-> <<>>]
    /\ pc = "run"
    /\ canvasCalls = <<>>

NextText == TextRunStart \/ TextCluster \/ TextRunReturn \/ TextAfterRun

SpecText == InitText /\ [][NextText]_vars

IsDraw(c) == c.call = "drawText"

(* C14: every shadow copy of the run is drawn before the first fill draw   *)
(* of the run.                                                             *)
C14_ShadowsBeforeFill ==
    \A i, j \in 1..Len(canvasCalls) :
        /\ IsDraw(canvasCalls[i]) /\ canvasCalls[i].paint.kind = "shadow"
        /\ IsDraw(canvasCalls[j]) /\ canvasCalls[j].paint = FillPaint
        => i < j

RECURSIVE SumSeq(_)
SumSeq(ws) == IF ws = <<>> THEN 0 ELSE Head(ws) + SumSeq(Tail(ws))

(* C15: a cluster drawn with a fallback font advances x by the width the   *)
(* fallback font measures for the glyphs that cluster has in the fallback  *)
(* font, plus letterSpacing.                                               *)
C15_FallbackAdvance ==
    \A k \in 1..Len(local.advances) :
        LET a == local.advances[k]
        IN a.font = "fallback"
           => a.advance = SumSeq(getGlyphWidths("fallback", FallbackGlyphIDs[a.letter]))
                            + operation.letterSpacing

(* C16: every cluster advances x by the sum of the widths measured for all *)
(* of its glyphs plus letterSpacing, and is drawn at the left edge plus    *)
(* the advances of the clusters before it.                                 *)
C16_AdvanceIsSumOfWidths ==
    \A k \in 1..Len(local.advances) :
        LET a == local.advances[k]
        IN /\ a.advance = SumSeq(getGlyphWidths(a.font, PrimaryGlyphIDs[a.letter]))
                            + operation.letterSpacing
           /\ k > 1 /\ local.advances[k - 1].paint = a.paint
                 => a.x = local.advances[k - 1].x + local.advances[k - 1].advance

CallsOf(name) == {i \in 1..Len(canvasCalls) : canvasCalls[i].call = name}

(* C17: a temporary font is made, used for the draw call and the           *)
(* measurement of its cluster and deleted, in that order and next to each  *)
(* other; it is deleted once, no temporary font is left between clusters   *)
(* or at the end, and renderTextWithLetterSpacing never deletes the font   *)
(* of its caller.                                                          *)
C17_FallbackFontReleased ==
    /\ \A i \in CallsOf("new Font") :
          /\ i + 3 <= Len(canvasCalls)
          /\ canvasCalls[i + 1].call = "drawText"
          /\ canvasCalls[i + 2].call = "getGlyphWidths"
          /\ canvasCalls[i + 3].call = "delete"
          /\ \A d \in 1..3 : canvasCalls[i + d].font = canvasCalls[i].font
          /\ Cardinality({j \in CallsOf("delete") :
                             canvasCalls[j].font = canvasCalls[i].font}) = 1
    /\ \A i \in 1..Len(canvasCalls) :
          canvasCalls[i].font.kind = "fallback"
             => \E j \in CallsOf("new Font") :
                   j <= i /\ canvasCalls[j].font = canvasCalls[i].font
    /\ \A j \in CallsOf("delete") :
          canvasCalls[j].by = "renderTextWithLetterSpacing"
             => canvasCalls[j].font.kind = "fallback"

(* Two clusters of the fill run were drawn with a temporary font each, and *)
(* the run has returned.                                                   *)
C17_Witness ==
    /\ pc = "afterRun"
    /\ local.paint = FillPaint
    /\ local.fonts = 2
    /\ Cardinality(CallsOf("new Font")) = 2

(* The draw calls of the run in progress.                                  *)
RunDraws ==
    SelectSeq(canvasCalls, LAMBDA c : IsDraw(c) /\ c.paint = local.paint)

NoGlyphMissing(letters) ==
    \A i \in 1..Len(letters) :
        \A g \in 1..Len(PrimaryGlyphIDs[letters[i]]) : PrimaryGlyphIDs[letters[i]][g] # 0

(* C18: when renderTextWithLetterSpacing has returned, it has drawn the    *)
(* whole text with one call if letterSpacing is 0 and no glyph of the text *)
(* is missing, and otherwise every cluster with one call, in text order.   *)
C18_OneCallOrOnePerCluster ==
    pc = "afterRun" =>
        IF operation.letterSpacing = 0 /\ NoGlyphMissing(operation.text)
        THEN /\ local.path = "fast"
             /\ Len(RunDraws) = 1
             /\ RunDraws[1].text = operation.text
        ELSE /\ local.path = "slow"
             /\ Len(RunDraws) = Len(operation.text)
             /\ \A k \in 1..Len(operation.text) :
                   RunDraws[k].text = <<operation.text[k]>>

(* A run of three clusters without letter spacing drawn cluster by cluster *)
(* because its last cluster has no glyph.                                  *)
C18_Witness ==
    /\ pc = "afterRun"
    /\ operation.letterSpacing = 0
    /\ operation.text = <<"a", "e", "z">>
    /\ Len(RunDraws) = 3

(***************************************************************************)
(* renderDashedDottedBorder: the dash pattern of one side. Lengths are     *)
(* exact fractions [n, d] in lowest terms with d > 0, standing for the     *)
(* numbers of the code.                                                    *)
(***************************************************************************)
MaxBorderWidth == 4
MaxSideLength == 100

BORDER_STYLE_DASHED == 2
BORDER_STYLE_DOTTED == 3

RECURSIVE GCD(_, _)
GCD(a, b) == IF b = 0 THEN a ELSE GCD(b, a % b)

Abs(i) == IF i < 0 THEN 0 - i ELSE i

Rat(n, d) ==
    LET g == GCD(Abs(n), Abs(d))
        sign == IF d < 0 THEN 0 - 1 ELSE 1
    IN [n |-> sign * (n \div g), d |-> sign * (d \div g)]

RatInt(i) == [n |-> i, d |-> 1]
RatAdd(a, b) == Rat(a.n * b.d + b.n * a.d, a.d * b.d)
RatSub(a, b) == Rat(a.n * b.d - b.n * a.d, a.d * b.d)
RatMul(a, b) == Rat(a.n * b.n, a.d * b.d)
RatAbs(a) == [n |-> Abs(a.n), d |-> a.d]
RatLess(a, b) == a.n * b.d < b.n * a.d
RatLeq(a, b) == a.n * b.d <= b.n * a.d

RatFloor_Ceiling(a) == 0 - ((0 - a.n) \div a.d)

(* Math.floor                                                              *)
RatFloor(a) == a.n \div a.d

(* let dashLength = width < 3 ? width * 3 : width * 2, and width if dotted *)
baseDashLength(style, width) ==
    IF style = BORDER_STYLE_DOTTED THEN width
    ELSE IF width < 3 THEN width * 3 ELSE width * 2

(* let spaceLength = width < 3 ? width * 2 : width, and width if dotted    *)
baseSpaceLength(style, width) ==
    IF style = BORDER_STYLE_DOTTED THEN width
    ELSE IF width < 3 THEN width * 2 ELSE width

(* The three branches on the side's length, taken for either style: the    *)
(* lengths as they are, both scaled, or the space re-balanced.             *)
balanceDashes(length, dash, space) ==
    IF length <= dash * 2
    THEN [dashLength |-> RatInt(dash), spaceLength |-> RatInt(space),
          numberOfDashes |-> 0, branch |-> "short",
          minSpace |-> RatInt(0), maxSpace |-> RatInt(0)]
    ELSE IF length <= dash * 2 + space
    THEN LET multiplier == Rat(length, 2 * dash + space)
         IN [dashLength |-> RatMul(RatInt(dash), multiplier),
             spaceLength |-> RatMul(RatInt(space), multiplier),
             numberOfDashes |-> 0, branch |-> "scaled",
             minSpace |-> RatInt(0), maxSpace |-> RatInt(0)]
    ELSE LET numberOfDashes == RatFloor(Rat(length + space, dash + space))
             minSpace == Rat(length - numberOfDashes * dash, numberOfDashes - 1)
             maxSpace == Rat(length - (numberOfDashes + 1) * dash, numberOfDashes)
         IN [dashLength |-> RatInt(dash),
             spaceLength |->
                 IF \/ RatLeq(maxSpace, RatInt(0))
                    \/ RatLess(RatAbs(RatSub(RatInt(space), minSpace)),
                               RatAbs(RatSub(RatInt(space), maxSpace)))
                 THEN minSpace ELSE maxSpace,
             numberOfDashes |-> numberOfDashes, branch |-> "balanced",
             minSpace |-> minSpace, maxSpace |-> maxSpace]

(* PathEffect.MakeDash([0, dashLength + spaceLength], 0) for dotted,       *)
(* PathEffect.MakeDash([dashLength, spaceLength], 0) for dashed            *)
dashPattern(style, b) ==
    IF style = BORDER_STYLE_DOTTED
    THEN <<RatInt(0), RatAdd(b.dashLength, b.spaceLength)>>
    ELSE <<b.dashLength, b.spaceLength>>

BorderFrame ==
    UNCHANGED <<tree, status, stack, invisible, log, activeEffects, alpha, effSaves,
                effectOwner, usedAlpha, pending, live, requested, unwound, effectOps,
                popResult>>

(* One call for a side; a second call for the same side recomputes the    *)
(* pattern from the same arguments.                                        *)
renderDashedDottedBorder ==
    /\ pc = "idle" \/ (pc = "done" /\ local.calls = 1)
    /\ operation.op = "border"
    /\ LET style == operation.style
           width == operation.width
           dash == baseDashLength(style, width)
           space == baseSpaceLength(style, width)
           balanced == balanceDashes(operation.length, dash, space)
       IN /\ local' = [op |-> "renderDashedDottedBorder",
                       baseDash |-> dash, baseSpace |-> space,
                       balanced |-> balanced,
                       pattern |-> dashPattern(style, balanced),
                       calls |-> IF pc = "idle" THEN 1 ELSE 2,
                       previous |-> IF pc = "idle" THEN <<>> ELSE local.pattern]
          /\ canvasCalls' = <<"save">>
                \o (IF style = BORDER_STYLE_DASHED THEN <<"clipPath">> ELSE <<>>)
                \o <<"setStrokeWidth", "MakeDash", "setPathEffect", "drawPath", "restore">>
    /\ pc' = "done"
    /\ lastAction' = "renderDashedDottedBorder"
    /\ UNCHANGED operation
    /\ BorderFrame

(* A border side that renderNodeBackgroundAndBorders hands over: dashed or *)
(* dotted, of a width above 0.                                             *)
InitBorder ==
    /\ tree = <<RootNode>>
    /\ NewRenderer
    /\ \E style \in {BORDER_STYLE_DASHED, BORDER_STYLE_DOTTED},
          width \in 1..MaxBorderWidth, length \in 0..MaxSideLength :
          operation = [op |-> "border", style |-> style, width |-> width,
                       length |-> length]
    /\ pc = "idle"
    /\ local = [op |-> "none"]
    /\ canvasCalls = <<>>

NextBorder == renderDashedDottedBorder

SpecBorder == InitBorder /\ [][NextBorder]_vars

(* C19: a dashed side starts from a dash of twice the width and a space of *)
(* the width, a dotted side from the width for both; a dashed side of      *)
(* width 2 and length 100 has 17 dashes of length 4.                       *)
C19_BaseDashTwiceWidth ==
    pc = "done" =>
        /\ local.baseDash = IF operation.style = BORDER_STYLE_DOTTED
                            THEN operation.width ELSE 2 * operation.width
        /\ local.baseSpace = operation.width
        /\ operation.style = BORDER_STYLE_DASHED /\ operation.width = 2
              /\ operation.length = 100
              => /\ local.balanced.numberOfDashes = 17
                 /\ local.pattern[1] = RatInt(4)

(* C20: the pattern of a dotted side is [0, 2 * width] whatever the length *)
(* of the side.                                                            *)
C20_DottedNotBalanced ==
    pc = "done" /\ operation.style = BORDER_STYLE_DOTTED
        => local.pattern = <<RatInt(0), RatInt(2 * operation.width)>>

(* The distance of a candidate space from the base space of the side.      *)
DistanceFromBase(candidate) == RatAbs(RatSub(RatInt(local.baseSpace), candidate))

(* C21: in the third balancing branch the space is the one of minSpace and *)
(* maxSpace closer to the base space, and minSpace when both are equally   *)
(* close or maxSpace is not positive.                                      *)
C21_TiePrefersMinSpace ==
    pc = "done" /\ local.balanced.branch = "balanced"
        => LET b == local.balanced
           IN b.spaceLength =
                 IF \/ RatLeq(b.maxSpace, RatInt(0))
                    \/ RatLeq(DistanceFromBase(b.minSpace), DistanceFromBase(b.maxSpace))
                 THEN b.minSpace ELSE b.maxSpace

(* C22: in the third balancing branch the dash is positive, the space is   *)
(* not negative and numberOfDashes is floor((length + baseSpace) / (dash + *)
(* baseSpace)); with minSpace chosen numberOfDashes dashes and one space   *)
(* less fill the side, with maxSpace chosen one dash more and              *)
(* numberOfDashes spaces fill it; a second computation for the same side   *)
(* gives the same pattern.                                                 *)
C22_BalancedFillsLength ==
    /\ pc = "done" /\ local.balanced.branch = "balanced"
          => LET b == local.balanced
                 n == b.numberOfDashes
                 filled(dashes, spaces) ==
                     RatAdd(RatMul(RatInt(dashes), b.dashLength),
                            RatMul(RatInt(spaces), b.spaceLength))
             IN /\ RatLess(RatInt(0), b.dashLength)
                /\ RatLeq(RatInt(0), b.spaceLength)
                /\ n = (operation.length + local.baseSpace)
                          \div (local.baseDash + local.baseSpace)
                /\ b.spaceLength \in {b.minSpace, b.maxSpace}
                /\ b.spaceLength = b.minSpace
                      => filled(n, n - 1) = RatInt(operation.length)
                /\ b.spaceLength = b.maxSpace
                      => filled(n + 1, n) = RatInt(operation.length)
    /\ pc = "done" /\ local.calls = 2 => local.previous = local.pattern

(* C22 as stated: numberOfDashes dashes and numberOfDashes - 1 spaces fill *)
(* every side of the third branch.                                         *)
C22_DashesFillLength ==
    pc = "done" /\ local.balanced.branch = "balanced"
        => LET b == local.balanced
           IN RatAdd(RatMul(RatInt(b.numberOfDashes), b.dashLength),
                     RatMul(RatInt(b.numberOfDashes - 1), b.spaceLength))
                 = RatInt(operation.length)

(* A dashed side of width 3 and length 95, computed twice: 10 dashes are   *)
(* counted and maxSpace = 29/10 is chosen, so 11 dashes fill the side.     *)
C22_Witness ==
    /\ pc = "done" /\ local.calls = 2
    /\ operation = [op |-> "border", style |-> BORDER_STYLE_DASHED, width |-> 3,
                    length |-> 95]
    /\ local.balanced.branch = "balanced"
    /\ local.balanced.numberOfDashes = 10
    /\ local.balanced.spaceLength = Rat(29, 10)
    /\ local.balanced.spaceLength = local.balanced.maxSpace

(***************************************************************************)
(* renderNodeBackgroundAndBorders: the loop over the four border sides.    *)
(***************************************************************************)
BORDER_STYLE_NONE == 0
BORDER_STYLE_DOUBLE == 4

(* border.style: none, solid, dashed, dotted, double                       *)
BorderStyles == BORDER_STYLE_NONE..BORDER_STYLE_DOUBLE

(* One entry of the borders array; the colour by what isTransparent says.  *)
Borders == [style : BorderStyles, transparent : BOOLEAN, width : 0..MaxBorderWidth]

SideCall(side, paintStyle, path) ==
    [call |-> "drawPath", side |-> side, paint |-> paintStyle, path |-> path]

(* canvas.drawPath(path, paint) of the side's trapezoid with a fill paint  *)
renderSolidBorder(side) == <<SideCall(side, "fill", "parsePathForBorder")>>

RenderDoubleBorder_NoFallback(width, side) ==
    << SideCall(side, "fill", "parsePathForBorderDoubleOuter"),
       SideCall(side, "fill", "parsePathForBorderDoubleInner") >>

(* if (width < 3) renderSolidBorder, else the outer and the inner path     *)
renderDoubleBorder(width, side) ==
    IF width < 3 THEN renderSolidBorder(side)
    ELSE << SideCall(side, "fill", "parsePathForBorderDoubleOuter"),
            SideCall(side, "fill", "parsePathForBorderDoubleInner") >>

(* The draw call of renderDashedDottedBorder: the stroke path of a dotted  *)
(* side, the first two box points of a dashed side.                        *)
strokeBorder(style, side) ==
    <<SideCall(side, "stroke",
               IF style = BORDER_STYLE_DOTTED THEN "parsePathForBorderStroke"
               ELSE "parsePathForBorder")>>

(* The body of the for loop for one border                                 *)
renderBorderSide(border, side) ==
    IF border.style # BORDER_STYLE_NONE /\ ~border.transparent /\ border.width > 0
    THEN CASE border.style = BORDER_STYLE_DASHED -> strokeBorder(border.style, side)
           [] border.style = BORDER_STYLE_DOTTED -> strokeBorder(border.style, side)
           [] border.style = BORDER_STYLE_DOUBLE -> renderDoubleBorder(border.width, side)
           [] OTHER -> renderSolidBorder(side)
    ELSE <<>>

BordersFrame ==
    UNCHANGED <<tree, status, stack, invisible, log, activeEffects, alpha, effSaves,
                effectOwner, usedAlpha, pending, live, requested, unwound, effectOps,
                popResult>>

(* One iteration of for (const border of borders), with side++ at its end  *)
BorderSide ==
    /\ pc = "borders"
    /\ local.side < 4
    /\ \E border \in Borders :
          /\ canvasCalls' = canvasCalls \o renderBorderSide(border, local.side)
          /\ local' = [local EXCEPT !.side = @ + 1, !.border = border]
    /\ lastAction' = "border"
    /\ UNCHANGED <<operation, pc>>
    /\ BordersFrame

(* The loop is over after the fourth side                                  *)
BordersReturn ==
    /\ pc = "borders"
    /\ local.side = 4
    /\ pc' = "done"
    /\ lastAction' = "return"
    /\ UNCHANGED <<operation, local, canvasCalls>>
    /\ BordersFrame

(* let side = 0, before the first border                                   *)
InitBorders ==
    /\ tree = <<RootNode>>
    /\ NewRenderer
    /\ operation = [op |-> "renderNodeBackgroundAndBorders"]
    /\ local = [op |-> "borders", side |-> 0,
                border |-> [style |-> BORDER_STYLE_NONE, transparent |-> TRUE,
                            width |-> 0]]
    /\ pc = "borders"
    /\ canvasCalls = <<>>

NextBorders == BorderSide \/ BordersReturn

SpecBorders == InitBorders /\ [][NextBorders]_vars

(* The draw calls of one side.                                             *)
CallsOfSide(side) == SelectSeq(canvasCalls, LAMBDA c : c.side = side)

(* C23: the side handled last is painted exactly when its style is not     *)
(* none, its colour is not transparent and its width is above 0; dashed    *)
(* and dotted sides are stroked, a double side of width 3 or more is two   *)
(* fills, outer then inner, a double side below width 3 is the one fill of *)
(* a solid side; the sides are handled top, right, bottom, left.           *)
C23_SidePaintedByStyle ==
    /\ \A i, j \in 1..Len(canvasCalls) :
          i < j => canvasCalls[i].side <= canvasCalls[j].side
    /\ \A i \in 1..Len(canvasCalls) : canvasCalls[i].side < local.side
    /\ local.side > 0 =>
          LET border == local.border
              calls == CallsOfSide(local.side - 1)
              solid == <<SideCall(local.side - 1, "fill", "parsePathForBorder")>>
          IN /\ calls # <<>> <=> /\ border.style # BORDER_STYLE_NONE
                                /\ ~border.transparent
                                /\ border.width > 0
             /\ calls # <<>> =>
                   CASE border.style \in {BORDER_STYLE_DASHED, BORDER_STYLE_DOTTED} ->
                           Len(calls) = 1 /\ calls[1].paint = "stroke"
                     [] border.style = BORDER_STYLE_DOUBLE /\ border.width >= 3 ->
                           /\ Len(calls) = 2
                           /\ calls[1].paint = "fill" /\ calls[2].paint = "fill"
                           /\ calls[1].path = "parsePathForBorderDoubleOuter"
                           /\ calls[2].path = "parsePathForBorderDoubleInner"
                     [] border.style = BORDER_STYLE_DOUBLE /\ border.width < 3 ->
                           calls = solid
                     [] OTHER -> calls = solid

(* Four sides handled: a dotted top, no right side painted, a double       *)
(* bottom of width 3 and a double left of width 2 painted as solid.        *)
C23_Witness ==
    /\ pc = "done"
    /\ local.border = [style |-> BORDER_STYLE_DOUBLE, transparent |-> FALSE, width |-> 2]
    /\ canvasCalls = << SideCall(0, "stroke", "parsePathForBorderStroke"),
                        SideCall(2, "fill", "parsePathForBorderDoubleOuter"),
                        SideCall(2, "fill", "parsePathForBorderDoubleInner"),
                        SideCall(3, "fill", "parsePathForBorder") >>

(***************************************************************************)
(* renderBackgroundImage: one radial-gradient layer.                       *)
(***************************************************************************)
MaxRadius == 3
MaxSaveDepth == 2

RadialCall(name, f) == [call |-> name, f |-> f]

PlainCall(name) == RadialCall(name, RatInt(0))

EllipseRestore_Missing == <<>>

(* this.canvas.restore() after the rectangle of an elliptical gradient     *)
ellipseRestore == <<PlainCall("restore")>>

(* The canvas and allocation calls of the radial branch, in order. The     *)
(* shader is null when the backend has no Shader.MakeRadialGradient.       *)
radialLayer(rx, ry, hasShader) ==
    IF rx > 0 /\ ry > 0
    THEN (IF hasShader THEN <<PlainCall("new shader")>> ELSE <<>>)
         \o (IF hasShader
             THEN << PlainCall("new skiaPath"), PlainCall("new paint") >>
                  \o (IF rx # ry
                      THEN << PlainCall("save"),
                              PlainCall("translate(mid)"),
                              RadialCall("concat", Rat(ry, rx)),
                              PlainCall("translate(-mid)"),
                              PlainCall("drawRect") >>
                           \o ellipseRestore
                      ELSE <<PlainCall("drawPath")>>)
                  \o << PlainCall("delete paint"), PlainCall("delete skiaPath"),
                        PlainCall("delete shader") >>
             ELSE <<>>)
    ELSE <<>>

CountCalls(calls, name) == Cardinality({i \in 1..Len(calls) : calls[i].call = name})

RadialFrame ==
    UNCHANGED <<tree, status, stack, invisible, log, activeEffects, alpha, effSaves,
                effectOwner, usedAlpha, pending, live, requested, unwound, effectOps,
                popResult>>

(* The radial branch for one layer on a canvas with some save depth        *)
RadialLayer ==
    /\ pc = "idle"
    /\ operation.op = "radial"
    /\ LET calls == radialLayer(operation.rx, operation.ry, operation.hasShader)
       IN /\ canvasCalls' = calls
          /\ local' = [op |-> "radial",
                       depth |-> operation.depth + CountCalls(calls, "save")
                                    - CountCalls(calls, "restore")]
    /\ pc' = "done"
    /\ lastAction' = "radial"
    /\ UNCHANGED operation
    /\ RadialFrame

InitRadial ==
    /\ tree = <<RootNode>>
    /\ NewRenderer
    /\ \E rx \in (0 - 1)..MaxRadius, ry \in (0 - 1)..MaxRadius,
          hasShader \in BOOLEAN, depth \in 0..MaxSaveDepth :
          operation = [op |-> "radial", rx |-> rx, ry |-> ry,
                       hasShader |-> hasShader, depth |-> depth]
    /\ local = [op |-> "none"]
    /\ pc = "idle"
    /\ canvasCalls = <<>>

NextRadial == RadialLayer

SpecRadial == InitRadial /\ [][NextRadial]_vars

Objects == {"shader", "skiaPath", "paint"}

(* C24: a radius that is not positive draws and allocates nothing; equal   *)
(* radii fill the path with no save; different radii save, scale the y     *)
(* axis by ry / rx between the translations to and from the box centre,    *)
(* draw one rectangle and restore; the save depth is as before the layer   *)
(* and whatever was allocated is deleted once.                             *)
C24_RadialLayerBalanced ==
    pc = "done" =>
        /\ local.depth = operation.depth
        /\ \A o \in Objects :
              /\ CountCalls(canvasCalls, "delete " \o o) = CountCalls(canvasCalls, "new " \o o)
              /\ CountCalls(canvasCalls, "new " \o o) <= 1
        /\ operation.rx <= 0 \/ operation.ry <= 0 => canvasCalls = <<>>
        /\ operation.rx > 0 /\ operation.ry > 0 /\ operation.hasShader =>
              LET drawing == SubSeq(canvasCalls, 4, Len(canvasCalls) - 3)
              IN IF operation.rx = operation.ry
                 THEN drawing = <<PlainCall("drawPath")>>
                 ELSE drawing = << PlainCall("save"),
                                   PlainCall("translate(mid)"),
                                   RadialCall("concat", Rat(operation.ry, operation.rx)),
                                   PlainCall("translate(-mid)"),
                                   PlainCall("drawRect"),
                                   PlainCall("restore") >>

(* An elliptical gradient of radii 2 and 3 drawn on a canvas of depth 1.   *)
C24_Witness ==
    /\ pc = "done"
    /\ operation = [op |-> "radial", rx |-> 2, ry |-> 3, hasShader |-> TRUE, depth |-> 1]
    /\ CountCalls(canvasCalls, "drawRect") = 1
    /\ CountCalls(canvasCalls, "restore") = 1

(***************************************************************************)
(* renderNodeBackgroundAndBorders: the box shadows of one container.       *)
(***************************************************************************)
MaxBoxShadows == 3

(* styles.boxShadow: every shadow is inset or not and carries the position *)
(* it was declared at.                                                     *)
BoxShadows ==
    UNION {{[i \in 1..n |-> [inset |-> insets[i], declared |-> i]] :
                insets \in [1..n -> BOOLEAN]} : n \in 0..MaxBoxShadows}

ShadowCall(shadow, name) == [call |-> name, shadow |-> shadow.declared]

(* mask(paths): a mask path made, clipped to and deleted                   *)
mask(shadow) ==
    << ShadowCall(shadow, "new maskPath"), ShadowCall(shadow, "clipPath"),
       ShadowCall(shadow, "delete maskPath") >>

OutsetClip_PathKept(shadow) ==
    mask(shadow) \o << ShadowCall(shadow, "new clipShadowPath"),
                       ShadowCall(shadow, "clipPath") >>

(* The else branch: mask(borderBoxArea), then the clip to the shadow path  *)
outsetClip(shadow) ==
    mask(shadow) \o << ShadowCall(shadow, "new clipShadowPath"),
                       ShadowCall(shadow, "clipPath"),
                       ShadowCall(shadow, "delete clipShadowPath") >>

(* if (shadow.inset): the clip to the border path, then mask(...)          *)
insetClip(shadow) ==
    << ShadowCall(shadow, "new borderPath"), ShadowCall(shadow, "clipPath") >>
    \o mask(shadow) \o <<ShadowCall(shadow, "delete borderPath")>>

(* The callback of forEach for one shadow                                  *)
renderBoxShadow(shadow) ==
    <<ShadowCall(shadow, "save")>>
    \o (IF shadow.inset THEN insetClip(shadow) ELSE outsetClip(shadow))
    \o << ShadowCall(shadow, "new shadowPaint"),
          ShadowCall(shadow, "new blurEffect"),
          ShadowCall(shadow, "save"),
          ShadowCall(shadow, "translate"),
          ShadowCall(shadow, "new shadowPath"),
          ShadowCall(shadow, "drawPath"),
          ShadowCall(shadow, "restore"),
          ShadowCall(shadow, "delete shadowPaint"),
          ShadowCall(shadow, "delete shadowPath"),
          ShadowCall(shadow, "delete blurEffect"),
          ShadowCall(shadow, "restore") >>

BoxShadowFrame ==
    UNCHANGED <<tree, status, stack, invisible, log, activeEffects, alpha, effSaves,
                effectOwner, usedAlpha, pending, live, requested, unwound, effectOps,
                popResult>>

(* One shadow of boxShadow.slice(0).reverse()                              *)
BoxShadow ==
    /\ pc = "shadows"
    /\ local.k <= Len(local.reversed)
    /\ LET calls == renderBoxShadow(local.reversed[local.k])
       IN /\ canvasCalls' = canvasCalls \o calls
          /\ local' = [local EXCEPT
                          !.k = @ + 1,
                          !.depth = @ + CountCalls(calls, "save")
                                      - CountCalls(calls, "restore")]
    /\ lastAction' = "boxShadow"
    /\ UNCHANGED <<operation, pc>>
    /\ BoxShadowFrame

BoxShadowsReturn ==
    /\ pc = "shadows"
    /\ local.k > Len(local.reversed)
    /\ pc' = "done"
    /\ lastAction' = "return"
    /\ UNCHANGED <<operation, local, canvasCalls>>
    /\ BoxShadowFrame

InitBoxShadow ==
    /\ tree = <<RootNode>>
    /\ NewRenderer
    /\ \E boxShadow \in BoxShadows, depth \in 0..MaxSaveDepth :
          /\ operation = [op |-> "boxShadow", boxShadow |-> boxShadow, depth |-> depth]
          /\ local = [op |-> "boxShadow", reversed |-> Reverse(boxShadow), k |-> 1,
                      depth |-> depth]
    /\ pc = "shadows"
    /\ canvasCalls = <<>>

NextBoxShadow == BoxShadow \/ BoxShadowsReturn

SpecBoxShadow == InitBoxShadow /\ [][NextBoxShadow]_vars

ShadowObjects == {"maskPath", "clipShadowPath", "borderPath", "shadowPaint",
                  "blurEffect", "shadowPath"}

CountShadowCalls(declared, name) ==
    Cardinality({i \in 1..Len(canvasCalls) :
                    canvasCalls[i].shadow = declared /\ canvasCalls[i].call = name})

(* C25: the shadows are painted from the last declared to the first;       *)
(* after every shadow the save depth is the one before it, and every mask  *)
(* path, clip path, paint, filter and shadow path made for it has been     *)
(* deleted once.                                                           *)
C25_BoxShadowsBalanced ==
    /\ local.depth = operation.depth
    /\ \A i, j \in 1..Len(canvasCalls) :
          i < j => canvasCalls[i].shadow >= canvasCalls[j].shadow
    /\ \A k \in 1..(local.k - 1) :
          LET shadow == operation.boxShadow[Len(operation.boxShadow) + 1 - k]
          IN /\ CountShadowCalls(shadow.declared, "drawPath") = 1
             /\ \A o \in ShadowObjects :
                   /\ CountShadowCalls(shadow.declared, "new " \o o)
                         = CountShadowCalls(shadow.declared, "delete " \o o)
                   /\ CountShadowCalls(shadow.declared, "new " \o o) <= 1
             /\ \A o \in {"maskPath", "shadowPaint", "blurEffect", "shadowPath"} :
                   CountShadowCalls(shadow.declared, "new " \o o) = 1

(* An inset shadow declared first and an outset shadow declared second,    *)
(* both painted, the outset one first.                                     *)
C25_Witness ==
    /\ pc = "done"
    /\ operation.depth = 1
    /\ operation.boxShadow = << [inset |-> TRUE, declared |-> 1],
                                [inset |-> FALSE, declared |-> 2] >>
    /\ CountShadowCalls(2, "delete clipShadowPath") = 1
    /\ CountShadowCalls(1, "delete borderPath") = 1
    /\ canvasCalls[1].shadow = 2

(***************************************************************************)
(* createSkiaFont(styles, fontCollection): the typeface of a declaration.  *)
(***************************************************************************)
MaxFamilies == 2

(* The family names of a declaration: two registered or unknown families   *)
(* and two of the generic classes.                                         *)
FamilyNames == {"Arial", "Noto", "sans-serif", "serif"}

(* The generic classes createSkiaFont looks for, in its order (the first   *)
(* two of sans-serif, serif, monospace, cursive, fantasy, fangsong).       *)
FontFamilyClasses == <<"sans-serif", "serif">>

FontFamilies == UNION {[1..n -> FamilyNames] : n \in 0..MaxFamilies}

(* fontCollection.defaultFonts: the classes that were given defaults.      *)
DefaultFonts ==
    { [sansSerif |-> a, serif |-> b] :
        a \in {<<>>, <<"Arial", "Noto">>}, b \in {<<>>, <<"Noto">>} }

defaultFontsOf(defaultFonts, familyClass) ==
    IF familyClass = "sans-serif" THEN defaultFonts.sansSerif ELSE defaultFonts.serif

Includes(seq, x) == \E i \in 1..Len(seq) : seq[i] = x

(* The classes of the fixed list that the declaration includes             *)
fallbackFontFamilyClasses(fontFamily) ==
    SelectSeq(FontFamilyClasses, LAMBDA c : Includes(fontFamily, c))

(* fontCollection.getFallbackFontFamilies(familyClasses)                   *)
getFallbackFontFamilies(defaultFonts, familyClasses) ==
    Flatten([i \in 1..Len(familyClasses) |-> defaultFontsOf(defaultFonts, familyClasses[i])])

(* [...fontInfo.fontFamily, ...fallbackFontFamilies]                       *)
familiesToTry(fontFamily, defaultFonts) ==
    fontFamily \o getFallbackFontFamilies(defaultFonts, fallbackFontFamilyClasses(fontFamily))

EmptyFont == [kind |-> "emptyFont", family |-> ""]

MatchThrown_Propagates == "thrown"

(* catch { continue; }                                                     *)
matchThrown == "matching"

FontFrame ==
    UNCHANGED <<tree, status, stack, invisible, log, activeEffects, alpha, effSaves,
                effectOwner, usedAlpha, pending, live, requested, unwound, effectOps,
                popResult>>

(* One iteration of the loop: fontMgr.matchFamilyStyle(family, style)      *)
(* returns a typeface, returns null or throws.                             *)
FontTryFamily ==
    /\ pc = "matching"
    /\ local.k <= Len(local.families)
    /\ \E outcome \in {"typeface", "null", "throw"} :
          LET family == local.families[local.k]
              tried == Append(local.tried, [family |-> family, outcome |-> outcome])
          IN CASE outcome = "typeface" ->
                    /\ local' = [local EXCEPT !.tried = tried, !.typeface = family]
                    /\ pc' = "matched"
               [] outcome = "null" ->
                    /\ local' = [local EXCEPT !.tried = tried, !.k = @ + 1]
                    /\ pc' = "matching"
               [] outcome = "throw" ->
                    /\ local' = [local EXCEPT !.tried = tried, !.k = @ + 1]
                    /\ pc' = matchThrown
    /\ lastAction' = "matchFamilyStyle"
    /\ UNCHANGED <<operation, canvasCalls>>
    /\ FontFrame

(* After the loop: the empty font of the collection, or getFont(typeface)  *)
FontReturn ==
    /\ \/ pc = "matched"
       \/ pc = "matching" /\ local.k > Len(local.families)
    /\ local' = [local EXCEPT !.result =
                    IF local.typeface = "" THEN EmptyFont
                    ELSE [kind |-> "font", family |-> local.typeface]]
    /\ pc' = "done"
    /\ lastAction' = "return"
    /\ UNCHANGED <<operation, canvasCalls>>
    /\ FontFrame

InitFont ==
    /\ tree = <<RootNode>>
    /\ NewRenderer
    /\ \E fontFamily \in FontFamilies, defaultFonts \in DefaultFonts :
          /\ operation = [op |-> "createSkiaFont", fontFamily |-> fontFamily,
                          defaultFonts |-> defaultFonts]
          /\ local = [op |-> "createSkiaFont",
                      families |-> familiesToTry(fontFamily, defaultFonts),
                      k |-> 1, tried |-> <<>>, typeface |-> "",
                      result |-> [kind |-> "none", family |-> ""]]
    /\ pc = "matching"
    /\ canvasCalls = <<>>

NextFont == FontTryFamily \/ FontReturn

SpecFont == InitFont /\ [][NextFont]_vars

(* The families in the order the claim gives: the declared ones, then the  *)
(* defaults of the classes the declaration names.                          *)
DeclaredThenDefaults ==
    operation.fontFamily
      \o (IF Includes(operation.fontFamily, "sans-serif")
          THEN operation.defaultFonts.sansSerif ELSE <<>>)
      \o (IF Includes(operation.fontFamily, "serif")
          THEN operation.defaultFonts.serif ELSE <<>>)

Matches == {i \in 1..Len(local.tried) : local.tried[i].outcome = "typeface"}

(* C26: no exception of matchFamilyStyle leaves createSkiaFont; the        *)
(* families are tried in the order declared families, class defaults, up   *)
(* to the first one that matches; the result is the font of that family,   *)
(* or the empty font of the collection when none matches, never null.      *)
C26_FontResolved ==
    /\ pc # "thrown"
    /\ \A i \in 1..Len(local.tried) : local.tried[i].family = DeclaredThenDefaults[i]
    /\ \A i \in Matches : i = Len(local.tried)
    /\ pc = "done" =>
          /\ local.result.kind \in {"font", "emptyFont"}
          /\ IF Matches = {}
             THEN /\ local.result = EmptyFont
                  /\ Len(local.tried) = Len(DeclaredThenDefaults)
             ELSE local.result = [kind |-> "font",
                                  family |-> local.tried[Len(local.tried)].family]

(* sans-serif is declared after an unknown family: the first lookup        *)
(* returns null, the lookup of the class name throws, and the first        *)
(* default of the class matches.                                           *)
C26_Witness ==
    /\ pc = "done"
    /\ operation.fontFamily = <<"Noto", "sans-serif">>
    /\ local.tried = << [family |-> "Noto", outcome |-> "null"],
                        [family |-> "sans-serif", outcome |-> "throw"],
                        [family |-> "Arial", outcome |-> "typeface"] >>
    /\ local.result = [kind |-> "font", family |-> "Arial"]

(***************************************************************************)
(* parseColor: the colour of a colour string. A string is the sequence of  *)
(* its characters for the hex notation, and of its tokens for the rgb()    *)
(* notation; channels are counted in 255ths.                               *)
(***************************************************************************)
HexDigits == {"3", "6", "9"}

HexLengths == {3, 4, 6, 8}

HexStrings == UNION {{<<"#">> \o d : d \in [1..n -> HexDigits]} : n \in HexLengths}

RgbStrings ==
    {<<"rgb(", r, ",", g, ",", b, ")">> : r, g, b \in {"51", "102", "153"}}
    \cup {<<"rgba(", "51", ",", "102", ",", "153", ",", a, ")">> : a \in {"0", "1"}}
    \cup {<<"rgb(", "51", ",", "102", ")">>}

OtherStrings == {<<>>, <<"r", "e", "d">>, <<"t", "r", "a", "n", "s", "p", "a", "r", "e", "n", "t">>}

ColorStrings == HexStrings \cup RgbStrings \cup OtherStrings

(* A number of JavaScript: a value, or NaN                                 *)
Num(v) == [nan |-> FALSE, v |-> v]
NaN == [nan |-> TRUE, v |-> 0]

HexDigitValue(c) == CASE c = "3" -> 3 [] c = "6" -> 6 [] c = "9" -> 9

(* parseInt(str, 16) of a string of hex digits: NaN for the empty string   *)
RECURSIVE parseIntHex(_)
parseIntHex(str) ==
    IF str = <<>> THEN NaN
    ELSE IF Len(str) = 1 THEN Num(HexDigitValue(str[1]))
    ELSE Num(parseIntHex(SubSeq(str, 1, Len(str) - 1)).v * 16
             + HexDigitValue(str[Len(str)]))

(* parseFloat(v.trim()) of a number token                                  *)
parseFloat(token) ==
    CASE token = "0" -> Num(0) [] token = "1" -> Num(1) [] token = "51" -> Num(51)
      [] token = "102" -> Num(102) [] token = "153" -> Num(153) [] OTHER -> NaN

(* str.slice(from, to) with 0-based bounds                                 *)
slice(str, from, to) ==
    SubSeq(str, from + 1, IF to < Len(str) THEN to ELSE Len(str))

(* Color4f(r, g, b, a) with the channels in 255ths                         *)
Color4f(r, g, b, a) == [r |-> r, g |-> g, b |-> b, a |-> a]

(* The value of a top-level alpha in 255ths: values[3] is taken as it is   *)
alphaOf(value) == IF value.nan THEN NaN ELSE Num(value.v * 255)

(* The branch for strings that start with #                                *)
parseHexColor(colorString) ==
    LET hex == slice(colorString, 1, Len(colorString))
    IN Color4f(parseIntHex(slice(hex, 0, 2)),
               parseIntHex(slice(hex, 2, 4)),
               parseIntHex(slice(hex, 4, 6)),
               IF Len(hex) > 6 THEN parseIntHex(slice(hex, 6, 8)) ELSE Num(255))

(* colorString.match(rgba?\(([^)]+)\)), split(",") and parseFloat: the     *)
(* values between the parentheses                                          *)
rgbaValues(colorString) ==
    LET inner == SubSeq(colorString, 2, Len(colorString) - 1)
        tokens == SelectSeq(inner, LAMBDA t : t # ",")
    IN [i \in 1..Len(tokens) |-> parseFloat(tokens[i])]

isRgbaMatch(colorString) ==
    /\ Len(colorString) >= 3
    /\ colorString[1] \in {"rgb(", "rgba("}
    /\ colorString[Len(colorString)] = ")"

Black == Color4f(Num(0), Num(0), Num(0), Num(255))

(* The manual parser, after the backend parser was absent or threw         *)
manualParseColor(colorString) ==
    IF colorString # <<>> /\ colorString[1] = "#"
    THEN parseHexColor(colorString)
    ELSE IF isRgbaMatch(colorString) /\ Len(rgbaValues(colorString)) >= 3
    THEN LET values == rgbaValues(colorString)
         IN Color4f(values[1], values[2], values[3],
                    IF Len(values) > 3 THEN alphaOf(values[4]) ELSE Num(255))
    ELSE Black

ColorFrame ==
    UNCHANGED <<tree, status, stack, invisible, log, activeEffects, alpha, effSaves,
                effectOwner, usedAlpha, pending, live, requested, unwound, effectOps,
                popResult>>

(* parseColor(color): the backend parser when there is one and it does not *)
(* throw, the manual parser otherwise                                      *)
parseColor ==
    /\ pc = "idle"
    /\ operation.op = "parseColor"
    /\ local' = [op |-> "parseColor",
                 by |-> IF operation.backend = "present" THEN "backend" ELSE "manual",
                 result |-> IF operation.backend = "present"
                            THEN Color4f(NaN, NaN, NaN, NaN)
                            ELSE manualParseColor(operation.colorString)]
    /\ pc' = "done"
    /\ lastAction' = "parseColor"
    /\ UNCHANGED <<operation, canvasCalls>>
    /\ ColorFrame

InitColor ==
    /\ tree = <<RootNode>>
    /\ NewRenderer
    /\ \E colorString \in ColorStrings, backend \in {"absent", "throws", "present"} :
          operation = [op |-> "parseColor", colorString |-> colorString,
                       backend |-> backend]
    /\ local = [op |-> "none"]
    /\ pc = "idle"
    /\ canvasCalls = <<>>

NextColor == parseColor

SpecColor == InitColor /\ [][NextColor]_vars

(* #rgb and #rgba written out as #rrggbb and #rrggbbaa                     *)
Expanded(colorString) ==
    <<"#">> \o Flatten([i \in 1..(Len(colorString) - 1) |->
                            <<colorString[i + 1], colorString[i + 1]>>])

MaxAttempts == 2
MaxCalls == 3

Attempts == 1..MaxAttempts

(* return canvasKitInstance !== null                                       *)
isCanvasKitLoaded(loader) == loader.canvasKitInstance # 0

getCanvasKitInstance(loader) == loader.canvasKitInstance

ExistingPromise_Ignored(loader) == 0

(* if (canvasKitPromise) return canvasKitPromise                           *)
existingPromise(loader) == loader.canvasKitPromise

(* reject(...) and resolve(...) settle a promise that is still pending     *)
settle(promises, a, outcome) ==
    IF promises[a] = "pending" THEN [promises EXCEPT ![a] = outcome] ELSE promises

(* clearTimeout(timeoutId)                                                 *)
clearTimeout(timers, a) ==
    IF timers[a] = "armed" THEN [timers EXCEPT ![a] = "cleared"] ELSE timers

(* The catch block: the timer cleared, canvasKitPromise reset, the promise *)
(* of the attempt rejected                                                 *)
loadFailed(loader, a) ==
    [loader EXCEPT !.timers = clearTimeout(@, a),
                   !.canvasKitPromise = 0,
                   !.promises = settle(@, a, "rejected")]

RunningInits(loader) == {a \in Attempts : loader.init[a] = "running"}

LoaderFrame ==
    UNCHANGED <<tree, status, stack, invisible, log, activeEffects, alpha, effSaves,
                effectOwner, usedAlpha, pending, live, requested, unwound, effectOps,
                popResult>>

(* A call of loadCanvasKit(options), up to its return. A new attempt runs  *)
(* the executor up to the await of CanvasKitInit, or into the catch block  *)
(* when CanvasKitInit throws at once; the promise is assigned to           *)
(* canvasKitPromise when the executor has returned.                        *)
LoadCanvasKit ==
    /\ pc = "loader"
    /\ Len(local.calls) < MaxCalls
    /\ LET call(kind, id, started) ==
               [kind |-> kind, id |-> id, started |-> started,
                instance |-> local.canvasKitInstance,
                inFlight |-> RunningInits(local),
                settled |-> IF kind = "promise" /\ ~started
                            THEN local.promises[id] ELSE "pending"]
       IN IF local.canvasKitInstance # 0
          THEN local' = [local EXCEPT
                           !.calls = Append(@, call("instance", local.canvasKitInstance, FALSE))]
          ELSE IF existingPromise(local) # 0
          THEN local' = [local EXCEPT
                           !.calls = Append(@, call("promise", local.canvasKitPromise, FALSE))]
          ELSE /\ local.attempts < MaxAttempts
               /\ LET a == local.attempts + 1
                      begun == [local EXCEPT
                                  !.attempts = a,
                                  !.promises[a] = "pending",
                                  !.timers[a] = "armed",
                                  !.calls = Append(@, call("promise", a, TRUE))]
                  IN \E throws \in BOOLEAN :
                        local' = [(IF throws
                                   THEN loadFailed([begun EXCEPT !.init[a] = "threw"], a)
                                   ELSE [begun EXCEPT !.init[a] = "running"])
                                  EXCEPT !.canvasKitPromise = a]
    /\ lastAction' = "loadCanvasKit"
    /\ UNCHANGED <<operation, pc, canvasCalls>>
    /\ LoaderFrame

(* await CanvasKitInit(...) resolves, with a module or with null           *)
InitResolved ==
    /\ pc = "loader"
    /\ \E a \in RunningInits(local), canvasKit \in {"module", "null"} :
          LET cleared == [local EXCEPT !.timers = clearTimeout(@, a),
                                       !.init[a] = canvasKit]
          IN local' = IF canvasKit = "null"
                      THEN loadFailed(cleared, a)
                      ELSE [cleared EXCEPT !.canvasKitInstance = a,
                                           !.promises = settle(@, a, "resolved")]
    /\ lastAction' = "resolved"
    /\ UNCHANGED <<operation, pc, canvasCalls>>
    /\ LoaderFrame

(* await CanvasKitInit(...) rejects                                        *)
InitRejected ==
    /\ pc = "loader"
    /\ \E a \in RunningInits(local) :
          local' = loadFailed([local EXCEPT !.init[a] = "rejected"], a)
    /\ lastAction' = "rejected"
    /\ UNCHANGED <<operation, pc, canvasCalls>>
    /\ LoaderFrame

(* The callback of setTimeout: reject(new Error("... timed out ..."))      *)
LoadTimeout ==
    /\ pc = "loader"
    /\ \E a \in Attempts :
          /\ local.timers[a] = "armed"
          /\ local' = [local EXCEPT !.timers[a] = "fired",
                                    !.promises = settle(@, a, "rejected")]
    /\ lastAction' = "timeout"
    /\ UNCHANGED <<operation, pc, canvasCalls>>
    /\ LoaderFrame

(* let canvasKitInstance = null; let canvasKitPromise = null               *)
InitLoader ==
    /\ tree = <<RootNode>>
    /\ NewRenderer
    /\ operation = [op |-> "loadCanvasKit"]
    /\ local = [op |-> "loader", canvasKitInstance |-> 0, canvasKitPromise |-> 0,
                attempts |-> 0,
                promises |-> [a \in Attempts |-> "none"],
                timers |-> [a \in Attempts |-> "none"],
                init |-> [a \in Attempts |-> "none"],
                calls |-> <<>>]
    /\ pc = "loader"
    /\ canvasCalls = <<>>

NextLoader == LoadCanvasKit \/ InitResolved \/ InitRejected \/ LoadTimeout

SpecLoader == InitLoader /\ [][NextLoader]_vars

(* C28: at most one initialisation runs at a time and at most one ever     *)
(* gives a module; a call made while an initialisation runs starts none    *)
(* and returns the promise of the running one; a call made after a module  *)
(* was cached returns that module; isCanvasKitLoaded is true exactly when  *)
(* getCanvasKitInstance is not null.                                       *)
C28_LoadedAtMostOnce ==
    /\ Cardinality(RunningInits(local)) <= 1
    /\ Cardinality({a \in Attempts : local.init[a] = "module"}) <= 1
    /\ local.canvasKitInstance # 0 => local.init[local.canvasKitInstance] = "module"
    /\ \A i \in 1..Len(local.calls) :
          LET c == local.calls[i]
          IN /\ c.inFlight # {} => ~c.started /\ c.kind = "promise" /\ c.id \in c.inFlight
             /\ c.instance # 0 => ~c.started /\ c.kind = "instance" /\ c.id = c.instance
             /\ c.instance # 0 => local.canvasKitInstance = c.instance
    /\ isCanvasKitLoaded(local) <=> getCanvasKitInstance(local) # 0

(* Three calls: the first starts the load, the second is made while it     *)
(* runs and gets its promise, the third is made after it succeeded and     *)
(* gets the module.                                                        *)
C28_Witness ==
    /\ Len(local.calls) = 3
    /\ local.calls[1].started /\ local.calls[1].id = 1
    /\ local.calls[2].kind = "promise" /\ local.calls[2].id = 1
    /\ ~local.calls[2].started /\ local.calls[2].inFlight = {1}
    /\ local.calls[3].kind = "instance" /\ local.calls[3].id = 1
    /\ local.attempts = 1

(* C29: no call of loadCanvasKit returns the promise of an attempt that    *)
(* has failed already: after a failure the next call starts a new attempt. *)
C29_RetryAfterFailure ==
    \A i \in 1..Len(local.calls) : local.calls[i].settled # "rejected"

(***************************************************************************)
(* font-collection.ts: addFont, setDefaultFonts and setFallbackFonts. A    *)
(* class or bucket without an entry in its Map has the empty list.         *)
(***************************************************************************)
MaxGiven == 2

FontNames == {"Arial", "Noto"}

GivenFamilies == UNION {[1..n -> FontNames] : n \in 0..MaxGiven}

FamilyClasses == {"serif", "sans-serif"}

CharacterBuckets == {"emoji"}

FilterRegistered_KeepsAll(given, registered) == given

(* families.filter(family => this.families.has(family))                    *)
filterRegistered(given, registered) ==
    SelectSeq(given, LAMBDA family : family \in registered)

(* The body of setDefaultFonts and of setFallbackFonts on their Map        *)
setFonts(map, key, given, registered) ==
    LET families == filterRegistered(given, registered)
    IN IF Len(families) = 0
       THEN [threw |-> TRUE, map |-> map]
       ELSE [threw |-> FALSE, map |-> [map EXCEPT ![key] = families]]

CollectionFrame ==
    UNCHANGED <<tree, status, stack, invisible, log, activeEffects, alpha, effSaves,
                effectOwner, usedAlpha, pending, live, requested, unwound, effectOps,
                popResult>>

(* addFont(buffer, family): registerFont and families.add(family)          *)
AddFont ==
    /\ pc = "collection"
    /\ \E family \in FontNames :
          /\ operation' = [op |-> "addFont", key |-> "", families |-> <<family>>]
          /\ local' = [local EXCEPT !.families = @ \cup {family}, !.threw = FALSE]
    /\ lastAction' = "addFont"
    /\ UNCHANGED <<pc, canvasCalls>>
    /\ CollectionFrame

SetDefaultFonts ==
    /\ pc = "collection"
    /\ \E fontFamilyClass \in FamilyClasses, families \in GivenFamilies :
          LET r == setFonts(local.defaultFonts, fontFamilyClass, families, local.families)
          IN /\ operation' = [op |-> "setDefaultFonts", key |-> fontFamilyClass,
                              families |-> families]
             /\ local' = [local EXCEPT !.defaultFonts = r.map, !.threw = r.threw]
    /\ lastAction' = "setDefaultFonts"
    /\ UNCHANGED <<pc, canvasCalls>>
    /\ CollectionFrame

SetFallbackFonts ==
    /\ pc = "collection"
    /\ \E unicodeCharacterBucket \in CharacterBuckets, families \in GivenFamilies :
          LET r == setFonts(local.fallbackFonts, unicodeCharacterBucket, families,
                            local.families)
          IN /\ operation' = [op |-> "setFallbackFonts", key |-> unicodeCharacterBucket,
                              families |-> families]
             /\ local' = [local EXCEPT !.fallbackFonts = r.map, !.threw = r.threw]
    /\ lastAction' = "setFallbackFonts"
    /\ UNCHANGED <<pc, canvasCalls>>
    /\ CollectionFrame

(* new SkiaFontCollection(canvasKit): empty Maps and an empty family set   *)
InitCollection ==
    /\ tree = <<RootNode>>
    /\ NewRenderer
    /\ operation = [op |-> "new", key |-> "", families |-> <<>>]
    /\ local = [op |-> "collection", families |-> {},
                defaultFonts |-> [c \in FamilyClasses |-> <<>>],
                fallbackFonts |-> [b \in CharacterBuckets |-> <<>>],
                threw |-> FALSE]
    /\ pc = "collection"
    /\ canvasCalls = <<>>

NextCollection == AddFont \/ SetDefaultFonts \/ SetFallbackFonts

SpecCollection == InitCollection /\ [][NextCollection]_vars

(* The given families that were registered before the call, in the given   *)
(* order.                                                                  *)
RegisteredOfGiven(given, registered) ==
    LET keep == {i \in 1..Len(given) : given[i] \in registered}
        nth(k) == CHOOSE i \in keep : Cardinality({j \in keep : j < i}) = k - 1
    IN [k \in 1..Cardinality(keep) |-> given[nth(k)]]

(* What a call of one of the two setters must do to its own Map and to the *)
(* other one.                                                              *)
SetterStores(own, ownAfter, other, otherAfter, registered) ==
    LET expected == RegisteredOfGiven(operation'.families, registered)
    IN /\ otherAfter = other
       /\ IF expected = <<>>
          THEN local'.threw /\ ownAfter = own
          ELSE /\ ~local'.threw
               /\ ownAfter = [own EXCEPT ![operation'.key] = expected]

MaxPages == 4

PageElements == {"a", "b"}

DocCall(name, element) == [call |-> name, element |-> element]

(* beginPage ... canvas.scale, lines 62-77                                 *)
pageOpen == <<DocCall("beginPage", ""), DocCall("save", ""), DocCall("scale", "")>>

PageClose_NoRestore(element) == <<DocCall("render", element), DocCall("endPage", "")>>

(* await renderer.render(elementContainer); canvas.restore(); endPage()    *)
pageClose(element) ==
    <<DocCall("render", element), DocCall("restore", ""), DocCall("endPage", "")>>

ExportFrame ==
    UNCHANGED <<tree, status, stack, invisible, log, activeEffects, alpha, effSaves,
                effectOwner, usedAlpha, pending, live, requested, unwound, effectOps,
                popResult>>

(* Lines 38-55: MakePDFDocument answers a document or null, then the loop  *)
(* awaits the first getNextPageElement.                                    *)
ExportStart ==
    /\ pc = "idle"
    /\ \E made \in BOOLEAN :
          pc' = IF made THEN "awaitElement" ELSE "rejected"
    /\ operation' = [op |-> "exportToPdf", key |-> "", families |-> <<>>]
    /\ lastAction' = "exportToPdf"
    /\ UNCHANGED <<local, canvasCalls>>
    /\ ExportFrame

(* Lines 55-92: the provider answers an element; beginPage answers a       *)
(* canvas or null; with a canvas the page is set up and render is awaited. *)
ElementReturned ==
    /\ pc = "awaitElement"
    /\ Len(local.returned) < MaxPages
    /\ \E element \in PageElements, canvas \in BOOLEAN :
          /\ local' = [local EXCEPT !.returned = Append(@, element)]
          /\ canvasCalls' = canvasCalls \o
                 (IF canvas THEN pageOpen ELSE <<DocCall("beginPage", "")>>)
          /\ pc' = IF canvas THEN "awaitRender" ELSE "rejected"
    /\ lastAction' = "element"
    /\ UNCHANGED operation
    /\ ExportFrame

(* Lines 56-58 and 97-99: the provider answers null; close and delete.     *)
NullReturned ==
    /\ pc = "awaitElement"
    /\ local' = [local EXCEPT !.returned = Append(@, "null")]
    /\ canvasCalls' = canvasCalls \o <<DocCall("close", ""), DocCall("delete", "")>>
    /\ pc' = "resolved"
    /\ lastAction' = "null"
    /\ UNCHANGED operation
    /\ ExportFrame

(* Line 55: the provider's promise rejects and exportToPdf rejects.        *)
ProviderRejected ==
    /\ pc = "awaitElement"
    /\ pc' = "rejected"
    /\ lastAction' = "providerRejected"
    /\ UNCHANGED <<operation, local, canvasCalls>>
    /\ ExportFrame

(* Lines 92-96: render resolves; restore, endPage, next iteration.         *)
PageRendered ==
    /\ pc = "awaitRender"
    /\ canvasCalls' = canvasCalls \o pageClose(local.returned[Len(local.returned)])
    /\ pc' = "awaitElement"
    /\ lastAction' = "rendered"
    /\ UNCHANGED <<operation, local>>
    /\ ExportFrame

(* Line 92: render rejects and exportToPdf rejects.                        *)
PageRenderRejected ==
    /\ pc = "awaitRender"
    /\ pc' = "rejected"
    /\ lastAction' = "renderRejected"
    /\ UNCHANGED <<operation, local, canvasCalls>>
    /\ ExportFrame

InitExport ==
    /\ tree = <<RootNode>>
    /\ NewRenderer
    /\ operation = [op |-> "none", key |-> "", families |-> <<>>]
    /\ local = [op |-> "export", returned |-> <<>>]
    /\ pc = "idle"
    /\ canvasCalls = <<>>

NextExport ==
    \/ ExportStart
    \/ ElementReturned
    \/ NullReturned
    \/ ProviderRejected
    \/ PageRendered
    \/ PageRenderRejected

SpecExport == InitExport /\ [][NextExport]_vars

DocIndices(name) == {i \in 1..Len(canvasCalls) : canvasCalls[i].call = name}

DocCount(name, upTo) == Cardinality({i \in DocIndices(name) : i <= upTo})

RenderedElements == SelectSeq(canvasCalls, LAMBDA c : c.call = "render")

NonNullReturned == SelectSeq(local.returned, LAMBDA e : e /= "null")

(* C31: beginPage and endPage alternate; every endPage directly follows    *)
(* the restore that follows the page's completed render, with saves and    *)
(* restores balanced; the pages rendered are the non-null elements the     *)
(* provider answered, in order; nothing is begun after null; close happens *)
(* at most once, after the last endPage, and exactly once on return.       *)
C31_OnePagePerElement ==
    /\ \A i \in 1..Len(canvasCalls) :
          LET open == DocCount("beginPage", i) - DocCount("endPage", i)
          IN /\ open \in {0, 1}
             /\ canvasCalls[i].call = "beginPage" => open = 1
             /\ canvasCalls[i].call = "endPage" =>
                  /\ open = 0
                  /\ i > 2
                  /\ canvasCalls[i - 1].call = "restore"
                  /\ canvasCalls[i - 2].call = "render"
                  /\ DocCount("save", i) = DocCount("restore", i)
             /\ canvasCalls[i].call = "close" =>
                  /\ open = 0
                  /\ DocCount("close", i) = 1
                  /\ \A j \in DocIndices("beginPage") \cup DocIndices("endPage") : j < i
    /\ \A k \in 1..Len(local.returned) :
          local.returned[k] = "null" => k = Len(local.returned)
    /\ DocCount("beginPage", Len(canvasCalls)) = Len(NonNullReturned)
    /\ \A k \in 1..Len(RenderedElements) : RenderedElements[k].element = NonNullReturned[k]
    /\ Len(RenderedElements) <= Len(NonNullReturned)
    /\ pc = "resolved" =>
          /\ Len(RenderedElements) = Len(NonNullReturned)
          /\ DocCount("endPage", Len(canvasCalls)) = Len(NonNullReturned)
          /\ DocCount("close", Len(canvasCalls)) = 1
    /\ pc \in {"awaitElement", "awaitRender", "rejected"} => DocIndices("close") = {}

(* The provider answered b, a, null; two pages were made and the document  *)
(* was closed.                                                             *)
C31_Witness ==
    /\ pc = "resolved"
    /\ local.op = "export"
    /\ local.returned = <<"b", "a", "null">>
    /\ Len(RenderedElements) = 2
    /\ DocCount("endPage", Len(canvasCalls)) = 2

(***************************************************************************)
(* renderBackgroundImage: the native objects of one layer, by kind and by  *)
(* the layer size calculateBackgroundRendering answers.                    *)
(***************************************************************************)
MaxLayerSide == 2

(* renderRepeat(path, shader, offsetX, offsetY)                            *)
renderRepeat ==
    << PlainCall("new skiaPath"), PlainCall("new paint"), PlainCall("save"),
       PlainCall("translate"), PlainCall("drawPath"), PlainCall("restore"),
       PlainCall("delete paint"), PlainCall("delete skiaPath") >>

(* The URL branch: cache.match answers an image or nothing, and            *)
(* convertCanvasImageSourceToSkia answers a Skia image or null.            *)
urlLayer(cached, hasImage) ==
    IF cached /\ hasImage
    THEN << PlainCall("new skiaImage"), PlainCall("new shader"),
            PlainCall("new skiaPath"), PlainCall("new paint"), PlainCall("save"),
            PlainCall("translate"), PlainCall("drawPath"), PlainCall("restore"),
            PlainCall("delete shader"), PlainCall("delete paint"),
            PlainCall("delete skiaPath"), PlainCall("delete skiaImage") >>
    ELSE <<>>

(* The linear-gradient branch: the shader is made first (null when the     *)
(* backend has no Shader.MakeLinearGradient), then drawn and deleted under *)
(* if (width > 0 && height > 0 && shader).                                 *)
linearLayer(width, height, hasShader) ==
    (IF hasShader THEN <<PlainCall("new shader")>> ELSE <<>>)
    \o (IF width > 0 /\ height > 0 /\ hasShader
        THEN renderRepeat \o <<PlainCall("delete shader")>>
        ELSE <<>>)

LayerInputs ==
    [kind : {"url", "linear", "radial"}, width : 0..MaxLayerSide,
     height : 0..MaxLayerSide, cached : BOOLEAN, made : BOOLEAN,
     rx : 0..1, ry : 0..2]

(* One iteration of the loop of renderBackgroundImage that does not throw  *)
RenderLayer ==
    /\ pc = "layer"
    /\ canvasCalls' =
          CASE operation.kind = "url" -> urlLayer(operation.cached, operation.made)
            [] operation.kind = "linear" ->
                 linearLayer(operation.width, operation.height, operation.made)
            [] operation.kind = "radial" ->
                 radialLayer(operation.rx, operation.ry, operation.made)
    /\ pc' = "done"
    /\ lastAction' = "renderBackgroundImage"
    /\ UNCHANGED <<operation, local>>
    /\ UNCHANGED <<tree, status, stack, invisible, log, activeEffects, alpha, effSaves,
                   effectOwner, usedAlpha, pending, live, requested, unwound, effectOps,
                   popResult>>

InitLayer ==
    /\ tree = <<RootNode>>
    /\ NewRenderer
    /\ operation \in LayerInputs
    /\ local = [op |-> "layer"]
    /\ pc = "layer"
    /\ canvasCalls = <<>>

NextLayer == RenderLayer

SpecLayer == InitLayer /\ [][NextLayer]_vars

LayerObjects == {"shader", "skiaPath", "paint", "skiaImage"}

(* C32: when a layer has been rendered without a throw, every shader,      *)
(* path, paint and image created for it has been released, for every kind  *)
(* and every size, zero width or height included.                          *)
C32_LayerObjectsReleased ==
    pc = "done" =>
        \A o \in LayerObjects :
            CountCalls(canvasCalls, "new " \o o) = CountCalls(canvasCalls, "delete " \o o)

(***************************************************************************)
(* HtmlPageBreak and SingleHtmlMultiPageProvider: the pages of one         *)
(* document. The elements below body are 1..n, element 0 is body, children *)
(* are in index order. Layout is the vertical block flow: a leaf has its   *)
(* own height, any other element the height of its displayed children,     *)
(* and an element carrying one of the two hide classes is display: none.   *)
(***************************************************************************)
MaxElements == 3

(* new HtmlPageBreak(document, pageSize.height)                            *)
PageHeight == 10

ElementHeights == {2, 6, 12}

ElementTags == {"div", "img", "header"}

Documents ==
    UNION {[parent : {p \in [1..n -> 0..(n - 1)] : \A i \in 1..n : p[i] < i},
            height : [1..n -> ElementHeights],
            tag : [1..n -> ElementTags]] : n \in 1..MaxElements}

ElementsOf(d) == DOMAIN d.parent

(* Array.from(element.children)                                            *)
childrenOf(d, p) ==
    LET kids == {i \in ElementsOf(d) : d.parent[i] = p}
        nth(k) == CHOOSE i \in kids : Cardinality({j \in kids : j < i}) = k - 1
    IN [k \in 1..Cardinality(kids) |-> nth(k)]

(* const name = value; ...: the value is computed once and then used       *)
With(value, rest(_)) == CHOOSE result \in {rest(v) : v \in {value}} : TRUE

RECURSIVE isDisplayed(_, _, _)
isDisplayed(d, e, hidden) ==
    e = 0 \/ (e \notin hidden /\ isDisplayed(d, d.parent[e], hidden))

RECURSIVE boxHeight(_, _, _)
RECURSIVE heightOfFirst(_, _, _, _)
(* The height of the first k of the boxes in kids, one below the other     *)
heightOfFirst(d, kids, k, hidden) ==
    IF k = 0 THEN 0
    ELSE boxHeight(d, kids[k], hidden) + heightOfFirst(d, kids, k - 1, hidden)

boxHeight(d, e, hidden) ==
    IF e # 0 /\ e \in hidden THEN 0
    ELSE With(childrenOf(d, e),
              LAMBDA kids : IF kids = <<>> THEN d.height[e]
                            ELSE heightOfFirst(d, kids, Len(kids), hidden))

RECURSIVE boxTop(_, _, _)
boxTop(d, e, hidden) ==
    With(childrenOf(d, d.parent[e]),
         LAMBDA siblings :
            (IF d.parent[e] = 0 THEN 0 ELSE boxTop(d, d.parent[e], hidden))
            + heightOfFirst(d, siblings,
                            Cardinality({k \in 1..Len(siblings) : siblings[k] < e}),
                            hidden))

(* element.getBoundingClientRect(): all zero for a box that is not         *)
(* displayed                                                               *)
getBoundingClientRect(d, e, hidden) ==
    IF isDisplayed(d, e, hidden)
    THEN [top |-> boxTop(d, e, hidden), height |-> boxHeight(d, e, hidden)]
    ELSE [top |-> 0, height |-> 0]

shouldTreatAsSingleElement(d, e) == d.tag[e] = "img"

shouldCheckForOverlap(d, e) == d.tag[e] \in {"div", "header"}

shouldRepeatOnEveryPage(d, e) == d.tag[e] = "header"

NoBounds == [defined |-> FALSE, top |-> 0, bottom |-> 0]

getUnionOfBounds(bounds1, bounds2) ==
    IF ~bounds1.defined THEN bounds2
    ELSE IF ~bounds2.defined THEN bounds1
    ELSE [defined |-> TRUE,
          top |-> IF bounds1.top < bounds2.top THEN bounds1.top ELSE bounds2.top,
          bottom |-> IF bounds1.bottom > bounds2.bottom THEN bounds1.bottom
                     ELSE bounds2.bottom]

RECURSIVE calculateNewBounds(_, _, _, _, _)
calculateNewBounds(d, e, bounds, hidePrevious, hideNext) ==
    LET kids == childrenOf(d, e)
        RECURSIVE over(_, _)
        over(k, b) ==
            IF k > Len(kids) THEN b
            ELSE With(calculateNewBounds(d, kids[k], b, hidePrevious, hideNext),
                      LAMBDA childBounds :
                         With(getUnionOfBounds(b, childBounds),
                              LAMBDA union : over(k + 1, union)))
        r == getBoundingClientRect(d, e, hidePrevious \cup hideNext)
    IN IF e \in hideNext THEN bounds
       ELSE IF Len(kids) = 0
       THEN getUnionOfBounds(bounds, [defined |-> TRUE, top |-> r.top,
                                      bottom |-> r.top + r.height])
       ELSE over(1, bounds)

Min2(a, b) == IF a < b THEN a ELSE b

CarriesHidePrevious_Never(e, hidePrevious) == FALSE

(* element.classList.contains(HIDE_PREVIOUS_PAGE_ITEM_CLASS)               *)
carriesHidePrevious(e, hidePrevious) == e \in hidePrevious

ClearHideNextPageItems_Kept(hideNext) == hideNext

(* clearHideNextPageItems(document): the elements that carry the class     *)
(* afterwards                                                              *)
clearHideNextPageItems(hideNext) == {}

(* The body of processElement(element), with the classes and              *)
(* finalPageHeight it reads and writes carried in st                       *)
RECURSIVE processElement(_, _, _, _)
RECURSIVE processElementAt(_, _, _, _, _)
processElementAt(d, e, hidePrevious, st, bounds) ==
    LET elementTop == bounds.top
        elementBottom == bounds.top + bounds.height
        overlap == st.finalPageHeight - elementTop
        kids == childrenOf(d, e)
        RECURSIVE over(_, _)
        over(k, s) ==
            IF k > Len(kids) THEN s
            ELSE With(processElement(d, kids[k], hidePrevious, [s EXCEPT !.items = <<>>]),
                      LAMBDA r : over(k + 1, [r EXCEPT !.items = s.items \o r.items]))
        none == [st EXCEPT !.items = <<>>]
        childrenDone(after) ==
            LET newBounds == calculateNewBounds(d, e, NoBounds, hidePrevious,
                                                after.hideNext)
                newHeight == newBounds.bottom - newBounds.top
            IN IF /\ shouldCheckForOverlap(d, e)
                  /\ newBounds.defined
                  /\ 5 * newHeight < bounds.height
                  /\ 5 * newHeight < 2 * PageHeight
               THEN [after EXCEPT !.items = <<>>,
                                  !.hideNext = @ \cup {e},
                                  !.finalPageHeight = Min2(@, newBounds.top)]
               ELSE after
    IN IF carriesHidePrevious(e, hidePrevious) THEN none
       ELSE IF elementTop >= st.finalPageHeight
       THEN [none EXCEPT !.hideNext = @ \cup {e}]
       ELSE IF elementTop >= 0 /\ elementBottom <= st.finalPageHeight
       THEN (IF shouldRepeatOnEveryPage(d, e) THEN none
             ELSE [none EXCEPT !.items = <<e>>])
       ELSE IF elementTop < st.finalPageHeight /\ elementBottom > st.finalPageHeight
       THEN (IF shouldTreatAsSingleElement(d, e)
                \/ (/\ shouldCheckForOverlap(d, e)
                    /\ 5 * overlap < bounds.height
                    /\ 5 * overlap < 2 * PageHeight)
             THEN [none EXCEPT !.hideNext = @ \cup {e},
                               !.finalPageHeight = Min2(@, elementTop)]
             ELSE With(over(1, none), LAMBDA after : childrenDone(after)))
       ELSE [none EXCEPT !.items = <<e>>]

(* const bounds = element.getBoundingClientRect(); and the rest            *)
processElement(d, e, hidePrevious, state) ==
    With(state,
         LAMBDA st :
            With(getBoundingClientRect(d, e, hidePrevious \cup st.hideNext),
                 LAMBDA bounds : processElementAt(d, e, hidePrevious, st, bounds)))

(* processPage(): the loop over document.body.children                     *)
processPage(d, hidePrevious, hideNext) ==
    LET kids == childrenOf(d, 0)
        RECURSIVE over(_, _)
        over(k, s) ==
            IF k > Len(kids) THEN s
            ELSE With(processElement(d, kids[k], hidePrevious, [s EXCEPT !.items = <<>>]),
                      LAMBDA r : over(k + 1, [r EXCEPT !.items = s.items \o r.items]))
    IN over(1, [items |-> <<>>, hideNext |-> hideNext, finalPageHeight |-> PageHeight])

PagesFrame ==
    UNCHANGED <<tree, status, stack, invisible, log, activeEffects, alpha, effSaves,
                effectOwner, usedAlpha, pending, live, requested, unwound, effectOps,
                popResult>>

(* getNextPageElement up to its first await: postProcess() on every call   *)
(* but the first.                                                          *)
PostProcess ==
    /\ pc = "idle"
    /\ local.currentPageIndex <= MaxElements
    /\ IF local.currentPageIndex > 0
       THEN /\ local' = [local EXCEPT
                   !.hidePrevious = @ \cup {local.pageItems[k] : k \in 1..Len(local.pageItems)},
                   !.marked = @ \o local.pageItems,
                   !.hideNext = clearHideNextPageItems(@),
                   !.postProcessCalls = @ + 1]
            /\ lastAction' = "postProcess"
       ELSE /\ UNCHANGED local
            /\ lastAction' = "firstPage"
    /\ pc' = "delay"
    /\ UNCHANGED <<operation, canvasCalls>>
    /\ PagesFrame

(* currentPageIndex++; processPage(); up to the second await               *)
ProcessPage ==
    /\ pc = "delay"
    /\ \E r \in {processPage(operation.document, local.hidePrevious, local.hideNext)} :
          local' = [local EXCEPT
              !.currentPageIndex = @ + 1,
              !.pageItems = r.items,
              !.hideNext = r.hideNext,
              !.pages = IF r.items = <<>> THEN @ ELSE Append(@, r.items),
              !.nextPage = IF r.items = <<>> THEN "null" ELSE "body"]
    /\ pc' = "processed"
    /\ lastAction' = "processPage"
    /\ UNCHANGED <<operation, canvasCalls>>
    /\ PagesFrame

(* return nextPage; exportToPdf renders the body and asks again, or ends   *)
(* on null.                                                                *)
ReturnPage ==
    /\ pc = "processed"
    /\ pc' = IF local.nextPage = "null" THEN "ended" ELSE "idle"
    /\ lastAction' = "return"
    /\ UNCHANGED <<operation, local, canvasCalls>>
    /\ PagesFrame

(* new SingleHtmlMultiPageProvider(iframeDocument, devicePageSize), with   *)
(* its new HtmlPageBreak: currentPageIndex = 0 and no page items.          *)
NewProvider ==
    /\ pc = "new"
    /\ \E d \in Documents :
          operation' = [op |-> "exportHTMLDocumentToPdf", document |-> d]
    /\ local' = [op |-> "pages", currentPageIndex |-> 0, pageItems |-> <<>>,
                 hidePrevious |-> {}, hideNext |-> {}, marked |-> <<>>,
                 pages |-> <<>>, nextPage |-> "none", postProcessCalls |-> 0]
    /\ pc' = "idle"
    /\ lastAction' = "newProvider"
    /\ UNCHANGED canvasCalls
    /\ PagesFrame

InitPages ==
    /\ tree = <<RootNode>>
    /\ NewRenderer
    /\ operation = [op |-> "none"]
    /\ local = [op |-> "none"]
    /\ pc = "new"
    /\ canvasCalls = <<>>

NextPages == NewProvider \/ PostProcess \/ ProcessPage \/ ReturnPage

SpecPages == InitPages /\ [][NextPages]_vars

Recorded == UNION {{local.pages[k][i] : i \in 1..Len(local.pages[k])} :
                      k \in 1..Len(local.pages)}

ItemsOf(items) == {items[i] : i \in 1..Len(items)}

(* C33: postProcess has run once for every processPage but the first and   *)
(* never before the first; right after postProcess every page item of the  *)
(* preceding processPage carries hide-previous-page-item and no element    *)
(* carries hide-next-page-item; no element that carries                    *)
(* hide-previous-page-item is recorded, or marked, again.                  *)
C33_PostProcessBetweenPages ==
    pc # "new" =>
    /\ pc = "delay" => local.postProcessCalls = local.currentPageIndex
    /\ pc \in {"processed", "ended"} =>
          local.postProcessCalls = local.currentPageIndex - 1
    /\ lastAction = "firstPage" => local.postProcessCalls = 0 /\ local.pages = <<>>
    /\ lastAction = "postProcess" =>
          /\ ItemsOf(local.pageItems) \subseteq local.hidePrevious
          /\ local.hideNext = {}
    /\ lastAction = "processPage" =>
          /\ ItemsOf(local.pageItems) \cap local.hidePrevious = {}
          /\ local.hideNext \cap local.hidePrevious = {}
    /\ \A i, j \in 1..Len(local.marked) : local.marked[i] = local.marked[j] => i = j

(* A second page has been made after one postProcess that hid the first    *)
(* page's item and cleared the class of the element left for later.        *)
C33_Witness ==
    /\ pc = "processed"
    /\ local.op = "pages"
    /\ local.currentPageIndex = 2
    /\ local.postProcessCalls = 1
    /\ local.pages = << <<1>>, <<2>> >>
    /\ local.hidePrevious = {1}

(* The page loop keeps asking for pages until one is null: every step of   *)
(* getNextPageElement that can run does run.                               *)
SpecPagesFair == SpecPages /\ WF_vars(NextPages)

(* C37: the pages made so far each recorded at least one element, no       *)
(* element is recorded on two pages, every element recorded on a page that *)
(* was followed by postProcess is hidden, so there are at most as many     *)
(* pages as elements; and the loop ends with a null page.                  *)
C37_PageLoopTerminates ==
    /\ [](pc = "new" \/
          /\ \A k \in 1..Len(local.pages) : local.pages[k] # <<>>
          /\ \A k, m \in 1..Len(local.pages) :
                k # m => ItemsOf(local.pages[k]) \cap ItemsOf(local.pages[m]) = {}
          /\ \A k \in 1..Len(local.pages) :
                k < Len(local.pages) => ItemsOf(local.pages[k]) \subseteq local.hidePrevious
          /\ Len(local.pages) <= Cardinality(ElementsOf(operation.document)))
    /\ <>(pc = "ended" /\ local.nextPage = "null")

(* Three elements, one recorded on each of three pages, then null.         *)
C37_Witness ==
    /\ pc = "ended"
    /\ local.op = "pages"
    /\ Len(local.pages) = 3
    /\ local.currentPageIndex = 4
    /\ local.hidePrevious = {1, 2, 3}

(* C38: when processPage has answered null, every leaf that is not         *)
(* repeated on every page has been recorded on a page, or one of its       *)
(* ancestors has.                                                          *)
C38_NothingLeftBehind ==
    pc = "ended" =>
        LET d == operation.document
            RECURSIVE covered(_)
            covered(e) == e # 0 /\ (e \in Recorded \/ covered(d.parent[e]))
        IN \A e \in ElementsOf(d) :
              (childrenOf(d, e) = <<>> /\ ~shouldRepeatOnEveryPage(d, e)) => covered(e)

(***************************************************************************)
(* document-structure.ts: generateDocumentStructure over a tree of         *)
(* elements 1..n (parent 0: no parent among them, children in index        *)
(* order), given one element or an array of elements none of which lies    *)
(* inside another. The structure is kept as the list of its tags in        *)
(* pre-order, each with the element it was made for and the element of its *)
(* parent tag; no tagIdMap entry and no attribute are both written 0.      *)
(***************************************************************************)
MaxTagElements == 3

(* A paragraph, two decorative elements (class decoration, class           *)
(* watermark) and a script.                                                *)
TagElementKinds == {"p", "decoration", "watermark", "script"}

TagDocuments ==
    UNION {[parent : {p \in [1..n -> 0..(n - 1)] : \A i \in 1..n : p[i] < i},
            kind : [1..n -> TagElementKinds]] : n \in 1..MaxTagElements}

RECURSIVE isInside(_, _, _)
(* e is a or lies below a                                                  *)
isInside(d, e, a) == e = a \/ (e # 0 /\ isInside(d, d.parent[e], a))

(* htmlElement: Element | Element[]                                        *)
StructureInputs(d) ==
    {[array |-> FALSE, elements |-> <<e>>] : e \in ElementsOf(d)}
    \cup {[array |-> TRUE, elements |-> q] :
            q \in {q \in UNION {[1..m -> ElementsOf(d)] : m \in 0..2} :
                     \A i, j \in 1..Len(q) : i # j => ~isInside(d, q[i], q[j])}}

shouldSkipElement(d, e) == d.kind[e] = "script"

isArtifactElement(d, e) == d.kind[e] \in {"decoration", "watermark"}

(* PREDEFINED_TAG_IDS.OtherArtifact and .PaginationWatermarkArtifact        *)
getArtifactType(d, e) == IF d.kind[e] = "watermark" THEN 0 - 5 ELSE 0 - 1

NextId_NotAdvanced(nextId) == nextId

(* context.nextId++: the value of nextId afterwards                        *)
nextIdAfter(nextId) == nextId + 1

RECURSIVE tagElement(_, _, _, _)
(* processElement(element, context); parentElement is the element whose    *)
(* tag receives the new tag as a child (0: the caller's root).             *)
tagElement(d, e, parentElement, context) ==
    IF shouldSkipElement(d, e) THEN context
    ELSE LET artifact == isArtifactElement(d, e)
             tagId == IF artifact THEN getArtifactType(d, e) ELSE context.nextId
             made == [context EXCEPT
                         !.nextId = IF artifact THEN @ ELSE nextIdAfter(@),
                         !.attribute[e] = tagId,
                         !.tagIdMap[e] = tagId,
                         !.tags = Append(@, [id |-> tagId, element |-> e,
                                             parent |-> parentElement])]
             kids == childrenOf(d, e)
             RECURSIVE over(_, _)
             over(k, c) == IF k > Len(kids) THEN c
                           ELSE over(k + 1, tagElement(d, kids[k], e, c))
         IN over(1, made)

(* generateDocumentStructure(htmlElement): the array form puts the tags    *)
(* under a new Document tag of id 0, the single form answers the           *)
(* element's own tag, or an empty Document tag when it was skipped.        *)
generateDocumentStructure(d, input) ==
    LET context == [nextId |-> 1,
                    tagIdMap |-> [e \in ElementsOf(d) |-> 0],
                    attribute |-> [e \in ElementsOf(d) |-> 0],
                    tags |-> <<>>]
        RECURSIVE over(_, _)
        over(k, c) == IF k > Len(input.elements) THEN c
                      ELSE over(k + 1, tagElement(d, input.elements[k], 0, c))
        done == over(1, context)
    IN [done EXCEPT !.tags =
           IF input.array \/ done.tags = <<>>
           THEN <<[id |-> 0, element |-> 0, parent |-> 0]>> \o done.tags
           ELSE done.tags]

RECURSIVE validateTag(_, _, _)
(* validatePDFStructure: the tags are visited in pre-order with the set of *)
(* positive ids seen so far.                                               *)
validateTag(tags, k, visitedIds) ==
    IF k > Len(tags) THEN TRUE
    ELSE IF tags[k].id > 0 /\ tags[k].id \in visitedIds THEN FALSE
    ELSE validateTag(tags, k + 1,
                     IF tags[k].id > 0 THEN visitedIds \cup {tags[k].id} ELSE visitedIds)

validatePDFStructure(tags) == validateTag(tags, 1, {})

StructureFrame ==
    UNCHANGED <<tree, status, stack, invisible, log, activeEffects, alpha, effSaves,
                effectOwner, usedAlpha, pending, live, requested, unwound, effectOps,
                popResult>>

GenerateStructure ==
    /\ pc = "idle"
    /\ operation.op = "generateDocumentStructure"
    /\ local' = [op |-> "generateDocumentStructure",
                 result |-> generateDocumentStructure(operation.document, operation.input)]
    /\ pc' = "done"
    /\ lastAction' = "generateDocumentStructure"
    /\ UNCHANGED <<operation, canvasCalls>>
    /\ StructureFrame

InitStructure ==
    /\ tree = <<RootNode>>
    /\ NewRenderer
    /\ \E d \in TagDocuments :
          \E input \in StructureInputs(d) :
              operation = [op |-> "generateDocumentStructure", document |-> d,
                           input |-> input]
    /\ local = [op |-> "none"]
    /\ pc = "idle"
    /\ canvasCalls = <<>>

NextStructure == GenerateStructure

SpecStructure == InitStructure /\ [][NextStructure]_vars

RECURSIVE preorderOf(_, _)
(* The elements of the subtree of e in document pre-order (e = 0: all)     *)
preorderOf(d, e) ==
    LET kids == childrenOf(d, e)
        RECURSIVE below(_)
        below(k) == IF k > Len(kids) THEN <<>>
                    ELSE preorderOf(d, kids[k]) \o below(k + 1)
    IN (IF e = 0 THEN <<>> ELSE <<e>>) \o below(1)

DocumentPosition(d, e) ==
    CHOOSE i \in 1..Len(preorderOf(d, 0)) : preorderOf(d, 0)[i] = e

RECURSIVE noSkipUpTo(_, _, _)
noSkipUpTo(d, e, root) ==
    ~shouldSkipElement(d, e) /\ (e = root \/ noSkipUpTo(d, d.parent[e], root))

(* e lies in one of the given subtrees, below no skipped element of it     *)
IsReached(e) ==
    \E k \in 1..Len(operation.input.elements) :
        /\ isInside(operation.document, e, operation.input.elements[k])
        /\ noSkipUpTo(operation.document, e, operation.input.elements[k])

GivenIndex(e) ==
    CHOOSE k \in 1..Len(operation.input.elements) :
        isInside(operation.document, e, operation.input.elements[k])

PositiveTagged == {e \in ElementsOf(operation.document) : local.result.tagIdMap[e] > 0}

(* What the claim says apart from the order of the positive ids            *)
TagsWellFormed ==
    LET d == operation.document
        r == local.result
    IN /\ \A e \in ElementsOf(d) :
             /\ IsReached(e) <=> r.tagIdMap[e] # 0
             /\ IsReached(e) /\ ~isArtifactElement(d, e) => r.tagIdMap[e] > 0
             /\ IsReached(e) /\ isArtifactElement(d, e) => r.tagIdMap[e] \in (0 - 8)..(0 - 1)
             /\ r.attribute[e] = r.tagIdMap[e]
             /\ Cardinality({k \in 1..Len(r.tags) : r.tags[k].element = e})
                   = IF IsReached(e) THEN 1 ELSE 0
       /\ \A k \in 1..Len(r.tags) :
             r.tags[k].element # 0 => r.tags[k].id = r.tagIdMap[r.tags[k].element]
       /\ {r.tagIdMap[e] : e \in PositiveTagged} = 1..Cardinality(PositiveTagged)
       /\ validatePDFStructure(r.tags)

-----------------------------------------------------------------------------
(* The effects in force at each draw call of a render                      *)

(* The steps that issue draw calls: the head of a paint call, and the      *)
(* continuation of a paint call after each of its awaits.                  *)
DrawSteps ==
    {"renderNodeBackgroundAndBorders", "renderNodeContent", "backgroundImage",
     "image", "svgFetch", "svgRaster", "iframe", "listImage"}

(* The paint call a suspension belongs to.                                 *)
PaintCallOf(s) ==
    <<s.node, IF s.what = "backgroundImage" THEN "background" ELSE "content">>

(* C35: whenever a draw call for a node's background and borders, or for   *)
(* its content, is issued (at the head of the paint call or after one of   *)
(* its awaits), the active effects are exactly the list that node          *)
(* requested for that target, with one open canvas save per effect and one *)
(* alpha entry per opacity effect: nothing of an earlier paint call is     *)
(* left and nothing requested is missing.                                  *)
C35_DrawUnderOwnEffects ==
    [][lastAction' \in DrawSteps =>
          /\ log' # <<>>
          /\ effectOwner' = log'[Len(log')]
          /\ activeEffects' = requested'
          /\ effSaves' = Len(requested')
          /\ Len(alpha') = 1 + OpacityCount(requested')
          /\ \A s \in (pending \ pending') \cup pending' :
                PaintCallOf(s) = effectOwner']_vars

(* The image of a node's content is drawn after its await, under the one   *)
(* effect the node requested, after paint calls of two other nodes.        *)
C35_Witness ==
    /\ lastAction = "image"
    /\ Len(log) >= 4
    /\ \E i, j \in 1..Len(log) :
          /\ log[i][1] # log[j][1]
          /\ log[i][1] # log[Len(log)][1]
          /\ log[j][1] # log[Len(log)][1]
    /\ log[Len(log)][2] = "content"
    /\ Len(requested) = 1
    /\ activeEffects = requested

-----------------------------------------------------------------------------
(* The canvas save depth over a whole render in which no call throws: the  *)
(* paint calls of render() one after the other, each with every canvas     *)
(* save and restore it issues                                              *)

MaxPaints == 2

MaxDepthLayers == 2

CallNames(calls) == [i \in 1..Len(calls) |-> calls[i].call]

RECURSIVE DepthAfter(_, _)
DepthAfter(depth, names) ==
    IF names = <<>> THEN depth
    ELSE DepthAfter(CASE Head(names) = "save" -> depth + 1
                      [] Head(names) = "restore" -> depth - 1
                      [] OTHER -> depth,
                    Tail(names))

RECURSIVE LowestDepth(_, _)
LowestDepth(depth, names) ==
    IF names = <<>> THEN depth
    ELSE Min2(depth, LowestDepth(DepthAfter(depth, <<Head(names)>>), Tail(names)))

RECURSIVE HighestDepth(_, _)
HighestDepth(depth, names) ==
    IF names = <<>> THEN depth
    ELSE LET rest == HighestDepth(DepthAfter(depth, <<Head(names)>>), Tail(names))
         IN IF rest > depth THEN rest ELSE depth

(* The canvas after the calls named: its depth, and the lowest and the     *)
(* highest depth it has been at.                                           *)
issue(l, names) ==
    [l EXCEPT !.depth = DepthAfter(@, names),
              !.lowest = Min2(@, LowestDepth(l.depth, names)),
              !.highest = IF HighestDepth(l.depth, names) > @
                          THEN HighestDepth(l.depth, names) ELSE @]

(* The saves and restores among the calls named                            *)
Nesting(names) == SelectSeq(names, LAMBDA name : name \in {"save", "restore"})

(* The save of renderNodeBackgroundAndBorders around the background        *)
backgroundClip(hasColor) ==
    <<"save", "new backgroundPath", "clipPath">>
        \o (IF hasColor THEN <<"new bgPaint", "drawPath", "delete bgPaint">> ELSE <<>>)

(* One iteration of the loop of renderBackgroundImage                      *)
layerCalls(layer) ==
    CallNames(CASE layer.kind = "url" -> urlLayer(layer.cached, layer.made)
                [] layer.kind = "linear" ->
                     linearLayer(layer.width, layer.height, layer.made)
                [] layer.kind = "radial" -> radialLayer(layer.rx, layer.ry, layer.made))

(* The layers of a background: of each kind, with everything that the     *)
(* branch of that kind looks at.                                           *)
DepthLayers ==
    {layer \in LayerInputs :
        CASE layer.kind = "url" ->
                layer.width = 0 /\ layer.height = 0 /\ layer.rx = 0 /\ layer.ry = 0
          [] layer.kind = "linear" -> layer.cached /\ layer.rx = 0 /\ layer.ry = 0
          [] layer.kind = "radial" ->
                layer.cached /\ layer.width = 0 /\ layer.height = 0}

RECURSIVE boxShadowCalls(_)
boxShadowCalls(shadows) ==
    IF shadows = <<>> THEN <<>>
    ELSE CallNames(renderBoxShadow(Head(shadows))) \o boxShadowCalls(Tail(shadows))

(* One side of the border loop: a side with no style, a transparent colour *)
(* or no width is passed over; dashed and dotted sides go to               *)
(* renderDashedDottedBorder, every other style fills paths.                *)
borderSideCalls(border) ==
    IF border.style = BORDER_STYLE_NONE \/ ~border.painted THEN <<>>
    ELSE IF border.style \in {BORDER_STYLE_DASHED, BORDER_STYLE_DOTTED}
         THEN <<"save">>
              \o (IF border.style = BORDER_STYLE_DASHED THEN <<"clipPath">> ELSE <<>>)
              \o <<"setStrokeWidth", "MakeDash", "setPathEffect", "drawPath", "restore">>
         ELSE <<"drawPath">>

DepthBorders == [style : BorderStyles, painted : BOOLEAN]

(* renderTextNode: each text bounds with a size is filled and then drawn   *)
(* once per text shadow, inside a save and a restore, when it is not blank *)
RECURSIVE textShadowCalls(_)
textShadowCalls(n) ==
    IF n = 0 THEN <<>>
    ELSE <<"save", "translate", "drawText", "restore">> \o textShadowCalls(n - 1)

renderTextNodeCalls(text) ==
    IF ~text.sized THEN <<>>
    ELSE <<"drawText">> \o (IF text.blank THEN <<>> ELSE textShadowCalls(text.shadows))

DepthTexts ==
    {<<>>} \cup {<<t>> : t \in [sized : BOOLEAN, blank : BOOLEAN,
                                shadows : {0, MaxShadows}]}

RenderReplacedElement_NoRestore(image, sized) ==
    IF image /\ sized
    THEN <<"new path", "save", "clipPath", "new paint", "drawImageRect",
           "delete paint", "delete path">>
    ELSE <<>>

(* renderReplacedElement: nothing without an image of a positive intrinsic *)
(* size                                                                    *)
renderReplacedElement(image, sized) ==
    IF image /\ sized
    THEN <<"new path", "save", "clipPath", "new paint", "drawImageRect",
           "restore", "delete paint", "delete path">>
    ELSE <<>>

(* The picture of an iframe drawn on the canvas of the parent              *)
iframeCompositing == <<"save", "translate", "scale", "drawPicture", "restore">>

(* The value of a text input                                               *)
inputTextCalls(hasValue) ==
    IF hasValue THEN <<"save", "clipRect", "drawText", "restore">> ELSE <<>>

DepthContentKinds == {"plain", "image", "canvas", "svg", "iframe", "input", "listImage"}

(* A container with what renderNodeContent finds at once: the converted    *)
(* image of a canvas element and its intrinsic size, the value of an input *)
DepthContainers ==
    {container \in [kind : DepthContentKinds, image : BOOLEAN, sized : BOOLEAN] :
        /\ container.kind # "canvas" => ~container.image
        /\ container.kind \notin {"canvas", "input"} => ~container.sized}

DepthFrame ==
    UNCHANGED <<tree, status, stack, invisible, log, usedAlpha, pending, live,
                unwound, effectOps, popResult>>

NoPaint == [layers |-> 0, shadows |-> 0, side |-> 0, kind |-> ""]

(* render() is called on a canvas that is at some depth already.           *)
DepthRenderStart ==
    /\ pc = "idle"
    /\ \E base \in 1..2 :
          local' = [op |-> "render", base |-> base, depth |-> base, lowest |-> base,
                    entry |-> base, highest |-> base, paints |-> 0, phase |-> "background"]
    /\ pc' = "walking"
    /\ lastAction' = "render"
    /\ UNCHANGED <<operation, canvasCalls, EffectVars>>
    /\ DepthFrame

(* renderNodeBackgroundAndBorders down to the call of renderBackgroundImage, *)
(* or to the border loop when there is neither background nor box shadow   *)
DepthBackground ==
    /\ pc = "walking"
    /\ local.phase = "background"
    /\ local.paints < MaxPaints
    /\ \E effects \in EffectListsUpTo(MaxEffects), hasColor \in BOOLEAN,
          layers \in 0..MaxDepthLayers, shadows \in 0..1 :
          LET r == applyEffects(RendererState(activeEffects, alpha, effSaves), effects)
              applied == issue(local, r.ops)
              clipped == hasColor \/ layers > 0 \/ shadows > 0
              names == IF clipped THEN backgroundClip(hasColor) ELSE <<>>
          IN /\ UseEffects(local.paints + 1, "background", effects)
             /\ local' = [issue(applied, names) EXCEPT !.entry = applied.depth]
             /\ canvasCalls' = Nesting(r.ops \o names)
             /\ operation' = [NoPaint EXCEPT !.layers = layers, !.shadows = shadows]
             /\ pc' = IF clipped THEN "layers" ELSE "borders"
    /\ lastAction' = "renderNodeBackgroundAndBorders"
    /\ DepthFrame

(* One layer of renderBackgroundImage, the await of a URL layer with it    *)
DepthLayer ==
    /\ pc = "layers"
    /\ operation.layers > 0
    /\ \E layer \in DepthLayers :
          /\ local' = issue(local, layerCalls(layer))
          /\ canvasCalls' = Nesting(layerCalls(layer))
    /\ operation' = [operation EXCEPT !.layers = @ - 1]
    /\ lastAction' = "layer"
    /\ UNCHANGED <<pc, EffectVars>>
    /\ DepthFrame

(* renderBackgroundImage has resolved: the restore of the background clip, *)
(* then the box shadows in reverse                                         *)
DepthShadows ==
    /\ pc = "layers"
    /\ operation.layers = 0
    /\ \E boxShadow \in BoxShadows :
          /\ Len(boxShadow) = operation.shadows
          /\ LET names == <<"restore", "delete backgroundPath">>
                             \o boxShadowCalls(Reverse(boxShadow))
             IN /\ local' = issue(local, names)
                /\ canvasCalls' = Nesting(names)
    /\ pc' = "borders"
    /\ lastAction' = "boxShadow"
    /\ UNCHANGED <<operation, EffectVars>>
    /\ DepthFrame

(* One side of the border loop; after the fourth side                     *)
(* renderNodeBackgroundAndBorders returns.                                 *)
DepthBorderSide ==
    /\ pc = "borders"
    /\ \E border \in DepthBorders :
          /\ local' = [issue(local, borderSideCalls(border)) EXCEPT
                          !.phase = IF operation.side = 3 THEN "content" ELSE @]
          /\ canvasCalls' = Nesting(borderSideCalls(border))
    /\ pc' = IF operation.side = 3 THEN "walking" ELSE pc
    /\ operation' = IF operation.side = 3 THEN NoPaint
                    ELSE [operation EXCEPT !.side = @ + 1]
    /\ lastAction' = "border"
    /\ UNCHANGED EffectVars
    /\ DepthFrame

(* What renderNodeContent does for its container once the resource it      *)
(* awaited is there, or at once when it awaits nothing                     *)
containerCalls(kind, image, sized) ==
    CASE kind \in {"image", "canvas", "svg"} -> renderReplacedElement(image, sized)
      [] kind = "iframe" -> iframeCompositing
      [] kind = "input" -> inputTextCalls(sized)
      [] kind = "listImage" -> IF image THEN <<"drawImageRect">> ELSE <<>>
      [] OTHER -> <<>>

Awaits(kind) == kind \in {"image", "svg", "iframe", "listImage"}

(* renderNodeContent: applyEffects, then the text nodes                    *)
DepthContent ==
    /\ pc = "walking"
    /\ local.phase = "content"
    /\ \E effects \in EffectListsUpTo(MaxEffects), texts \in DepthTexts :
          LET r == applyEffects(RendererState(activeEffects, alpha, effSaves), effects)
              applied == issue(local, r.ops)
              names == IF texts = <<>> THEN <<>> ELSE renderTextNodeCalls(texts[1])
          IN /\ UseEffects(local.paints + 1, "content", effects)
             /\ canvasCalls' = Nesting(r.ops \o names)
             /\ local' = [issue(applied, names) EXCEPT !.entry = applied.depth]
    /\ pc' = "container"
    /\ lastAction' = "renderNodeContent"
    /\ UNCHANGED operation
    /\ DepthFrame

(* renderNodeContent after the text nodes: up to the await of the          *)
(* container's resource, or to its end                                     *)
DepthContainer ==
    /\ pc = "container"
    /\ \E container \in DepthContainers :
          IF Awaits(container.kind)
          THEN /\ operation' = [NoPaint EXCEPT !.kind = container.kind]
               /\ pc' = "awaitContent"
               /\ UNCHANGED <<local, canvasCalls>>
          ELSE LET names == containerCalls(container.kind, container.image,
                                           container.sized)
               IN /\ local' = [issue(local, names) EXCEPT !.paints = @ + 1,
                                                          !.phase = "background"]
                  /\ canvasCalls' = Nesting(names)
                  /\ operation' = NoPaint
                  /\ pc' = "walking"
    /\ lastAction' = "container"
    /\ UNCHANGED EffectVars
    /\ DepthFrame

(* The promise renderNodeContent awaits has settled: a rejected fetch is   *)
(* caught and logged, a resolved one is drawn.                             *)
DepthContentSettled ==
    /\ pc = "awaitContent"
    /\ \E outcome \in {"resolved", "rejected"}, image \in BOOLEAN, sized \in BOOLEAN :
          /\ outcome = "rejected" => operation.kind # "iframe" /\ ~image /\ ~sized
          /\ LET names == IF outcome = "rejected" THEN <<>>
                          ELSE containerCalls(operation.kind, image, sized)
             IN /\ local' = [issue(local, names) EXCEPT !.paints = @ + 1,
                                                        !.phase = "background"]
                /\ canvasCalls' = Nesting(names)
    /\ operation' = NoPaint
    /\ pc' = "walking"
    /\ lastAction' = "image"
    /\ UNCHANGED EffectVars
    /\ DepthFrame

(* renderStack has resolved: this.applyEffects([]), and render() returns.  *)
DepthRenderFinish ==
    /\ pc = "walking"
    /\ local.phase = "background"
    /\ LET r == applyEffects(RendererState(activeEffects, alpha, effSaves), <<>>)
       IN /\ UseEffects(0, "", <<>>)
          /\ local' = [issue(local, r.ops) EXCEPT !.entry = DepthAfter(local.depth, r.ops)]
          /\ canvasCalls' = r.ops
    /\ pc' = "resolved"
    /\ lastAction' = "renderFinish"
    /\ UNCHANGED operation
    /\ DepthFrame

InitDepth ==
    /\ tree = <<RootNode>>
    /\ NewRenderer
    /\ operation = NoPaint
    /\ local = [op |-> "none"]
    /\ pc = "idle"
    /\ canvasCalls = <<>>

NextDepth ==
    \/ DepthRenderStart
    \/ DepthBackground
    \/ DepthLayer
    \/ DepthShadows
    \/ DepthBorderSide
    \/ DepthContent
    \/ DepthContainer
    \/ DepthContentSettled
    \/ DepthRenderFinish

SpecDepth == InitDepth /\ [][NextDepth]_vars

(* C36: in a render in which no call throws, counting every save and       *)
(* restore the renderer issues, the canvas is never below the depth        *)
(* render() found it at; between two paint calls, and so at the start of   *)
(* each node's paint, the depth is the base depth plus the number of       *)
(* active effects, and so it is inside a paint call once applyEffects has  *)
(* run; when render() has returned the depth is the base depth again.      *)
C36_SavesAndRestoresBalanced ==
    pc # "idle" =>
        /\ local.lowest >= local.base
        /\ local.depth >= local.base + Len(activeEffects)
        /\ local.entry = local.base + Len(activeEffects)
        /\ pc = "walking" => local.depth = local.base + Len(activeEffects)
        /\ pc = "resolved" => local.depth = local.base /\ activeEffects = <<>>

(* render() has returned after two nodes were painted; the canvas has been *)
(* four saves above the base on the way (two effects, the background clip  *)
(* and a save inside it, or two effects and the two saves of a box shadow) *)
(* and the final applyEffects([]) has restored the two effects that the    *)
(* last paint call left.                                                   *)
C36_Witness ==
    /\ pc = "resolved"
    /\ local.paints = MaxPaints
    /\ local.highest >= local.base + 4
    /\ canvasCalls = <<"restore", "restore">>
    /\ local.depth = local.base

-----------------------------------------------------------------------------
(* SkiaFontCollection: the font cache and clearResources                   *)

MaxRequests == 3

MaxClears == 2

(* A typeface is known by the pointer of its native object.                *)
TypefacePointers == {1, 2}

RequestedSizes == {12, 16}

(* `${typeface.cb.lb}-${fontSize}`: the pointer and the size, each written *)
(* in decimal, with a dash between them                                    *)
cacheKey(typeface, fontSize) == <<typeface, "-", fontSize>>

NativeObject(kind, serial) == [kind |-> kind, serial |-> serial]

NativeCall(name, object) == [call |-> name, object |-> object]

fontMgr == NativeObject("fontMgr", 0)

emptyFont == NativeObject("emptyFont", 0)

(* getFont: the cached font of the key, or a new font that is cached       *)
getFont(fontsCache, made, typeface, fontSize) ==
    LET key == cacheKey(typeface, fontSize)
    IN IF key \in DOMAIN fontsCache
       THEN [font |-> fontsCache[key], fontsCache |-> fontsCache, calls |-> <<>>]
       ELSE LET font == NativeObject("font", made + 1)
            IN [font |-> font,
                fontsCache |-> [k \in DOMAIN fontsCache \cup {key} |->
                                   IF k = key THEN font ELSE fontsCache[k]],
                calls |-> <<NativeCall("new", font)>>]

(* fontsCache.forEach(font => font.delete()): a Map is walked in the order *)
(* its keys were set, which is the order the fonts were made in            *)
RECURSIVE deleteCached(_, _)
deleteCached(fontsCache, serial) ==
    IF \A k \in DOMAIN fontsCache : fontsCache[k].serial < serial THEN <<>>
    ELSE (IF \E k \in DOMAIN fontsCache : fontsCache[k].serial = serial
          THEN <<NativeCall("delete", NativeObject("font", serial))>>
          ELSE <<>>)
         \o deleteCached(fontsCache, serial + 1)

(* The native calls of clearResources, in order                            *)
clearResources(fontsCache) ==
    deleteCached(fontsCache, 1)
        \o << NativeCall("delete", fontMgr), NativeCall("delete", fontMgr),
              NativeCall("delete", emptyFont) >>

NoFontCached == [k \in {} |-> emptyFont]

FontCacheFrame ==
    UNCHANGED <<tree, status, stack, invisible, log, activeEffects, alpha, effSaves,
                effectOwner, usedAlpha, pending, live, requested, unwound, effectOps,
                popResult>>

GetFont ==
    /\ pc = "fonts"
    /\ local.requests < MaxRequests
    /\ \E typeface \in TypefacePointers, fontSize \in RequestedSizes :
          LET r == getFont(local.fontsCache, local.made, typeface, fontSize)
          IN /\ operation' = [op |-> "getFont", key |-> cacheKey(typeface, fontSize)]
             /\ local' = [local EXCEPT !.fontsCache = r.fontsCache,
                                       !.made = @ + Len(r.calls),
                                       !.requests = @ + 1,
                                       !.result = r.font]
             /\ canvasCalls' = canvasCalls \o r.calls
    /\ lastAction' = "getFont"
    /\ UNCHANGED pc
    /\ FontCacheFrame

ClearResources ==
    /\ pc = "fonts"
    /\ local.clears < MaxClears
    /\ operation' = [op |-> "clearResources", key |-> cacheKey(0, 0)]
    /\ local' = [local EXCEPT !.fontsCache = NoFontCached,
                              !.fonts = <<>>,
                              !.defaultFonts = [c \in {} |-> <<>>],
                              !.fallbackFonts = [b \in {} |-> <<>>],
                              !.families = {},
                              !.cleared = local.made,
                              !.clears = @ + 1,
                              !.result = emptyFont]
    /\ canvasCalls' = canvasCalls \o clearResources(local.fontsCache)
    /\ lastAction' = "clearResources"
    /\ UNCHANGED pc
    /\ FontCacheFrame

(* A collection after addFont of two families, setDefaultFonts and         *)
(* setFallbackFonts; the constructor has made the font manager and the     *)
(* empty font.                                                             *)
InitFontCache ==
    /\ tree = <<RootNode>>
    /\ NewRenderer
    /\ operation = [op |-> "new", key |-> cacheKey(0, 0)]
    /\ local = [op |-> "fonts",
                families |-> FontNames,
                fonts |-> <<"Arial", "Noto">>,
                defaultFonts |-> [c \in {"serif"} |-> <<"Arial">>],
                fallbackFonts |-> [b \in CharacterBuckets |-> <<"Noto">>],
                fontsCache |-> NoFontCached,
                made |-> 0, cleared |-> 0, requests |-> 0, clears |-> 0,
                result |-> emptyFont]
    /\ pc = "fonts"
    /\ canvasCalls = << NativeCall("new", fontMgr), NativeCall("new", emptyFont) >>

NextFontCache == GetFont \/ ClearResources

SpecFontCache == InitFontCache /\ [][NextFontCache]_vars

NativeCalls(name, object) ==
    Cardinality({i \in 1..Len(canvasCalls) : canvasCalls[i] = NativeCall(name, object)})

CachedFonts == {local.fontsCache[k] : k \in DOMAIN local.fontsCache}

MadeFonts == {NativeObject("font", serial) : serial \in 1..local.made}

(* C39: once clearResources has been called, the font manager, the empty   *)
(* font and every font that is no longer cached have been deleted exactly  *)
(* once; clearResources leaves the font cache, the family maps and the     *)
(* family set empty; between two clearResources calls getFont makes one    *)
(* native font per key at most and answers the cached font of the key.     *)
C39_ReleasedOnceAndCached ==
    /\ local.clears >= 1 =>
          /\ NativeCalls("delete", fontMgr) = 1
          /\ NativeCalls("delete", emptyFont) = 1
          /\ \A font \in MadeFonts \ CachedFonts : NativeCalls("delete", font) = 1
    /\ \A font \in CachedFonts : NativeCalls("delete", font) = 0
    /\ lastAction = "clearResources" =>
          /\ DOMAIN local.fontsCache = {}
          /\ DOMAIN local.defaultFonts = {}
          /\ DOMAIN local.fallbackFonts = {}
          /\ local.families = {}
    /\ Cardinality(DOMAIN local.fontsCache) = local.made - local.cleared
    /\ Cardinality(CachedFonts) = Cardinality(DOMAIN local.fontsCache)
    /\ lastAction = "getFont" =>
          /\ operation.key \in DOMAIN local.fontsCache
          /\ local.result = local.fontsCache[operation.key]

====
